---- MODULE Spec2Model ----
(***************************************************************************)
(* Job lifecycle client of the SeleniumBase node: the polling state        *)
(* machine waitForJobCompletion (transport/apiClient.ts), the artifact     *)
(* downloads, and the execute-script handler that sequences them.          *)
(*                                                                         *)
(* JavaScript strings are sequences of one-character strings, so that      *)
(* trim() and toLowerCase() are computed, not assumed.  JavaScript numbers *)
(* are finite multiples of one half, or NaN, +Infinity, -Infinity.  Time   *)
(* is Date.now() in milliseconds.                                          *)
(***************************************************************************)
EXTENDS Integers, Sequences, FiniteSets, TLC

(* ------------------------------ bounds --------------------------------- *)

\* largest polling interval tried, in half seconds
MaxIntervalHalves == 4
\* largest timeout tried, in half seconds
MaxTimeoutHalves == 5
\* longest extra delay of a timer or of an HTTP exchange, in half seconds
MaxDelayHalves == 2
\* the longest list a list request is answered with
MaxListed == 2
\* the number of input items of a run of the node
NumItems == 2

(* ----------------------------- constants ------------------------------- *)

MILLISECONDS_PER_SECOND == 1000

JOB_STATUS_PENDING == <<"p", "e", "n", "d", "i", "n", "g">>
JOB_STATUS_RUNNING == <<"r", "u", "n", "n", "i", "n", "g">>
JOB_STATUS_COMPLETED == <<"c", "o", "m", "p", "l", "e", "t", "e", "d">>
JOB_STATUS_FAILED == <<"f", "a", "i", "l", "e", "d">>

(* ------------------------- JavaScript values --------------------------- *)

Str(chars) == [type |-> "string", chars |-> chars]
Undefined == [type |-> "undefined", chars |-> <<>>]

UpperCaseLetters ==
    <<"A", "B", "C", "D", "E", "F", "G", "H", "I", "J", "K", "L", "M",
      "N", "O", "P", "Q", "R", "S", "T", "U", "V", "W", "X", "Y", "Z">>
LowerCaseLetters ==
    <<"a", "b", "c", "d", "e", "f", "g", "h", "i", "j", "k", "l", "m",
      "n", "o", "p", "q", "r", "s", "t", "u", "v", "w", "x", "y", "z">>
WhiteSpace == {" ", "\t", "\n"}

\* String.prototype.toLowerCase
ToLowerCase(s) ==
    [i \in 1..Len(s) |->
        IF \E k \in 1..Len(UpperCaseLetters) : UpperCaseLetters[k] = s[i]
        THEN LowerCaseLetters[CHOOSE k \in 1..Len(UpperCaseLetters) : UpperCaseLetters[k] = s[i]]
        ELSE s[i]]

\* String.prototype.trim
Trim(s) ==
    LET keep == {i \in 1..Len(s) : s[i] \notin WhiteSpace}
    IN  IF keep = {} THEN <<>>
        ELSE LET first == CHOOSE i \in keep : \A j \in keep : i <= j
                 last  == CHOOSE i \in keep : \A j \in keep : j <= i
             IN  SubSeq(s, first, last)

\* `${value ?? ''}`
TemplateOrEmpty(value) == IF value.type = "undefined" THEN <<>> ELSE value.chars

\* `${value ?? ''}`.trim().toLowerCase()
NormalizeStatus_NoTrim(value) == ToLowerCase(TemplateOrEmpty(value))
NormalizeStatus(value) == ToLowerCase(Trim(TemplateOrEmpty(value)))

Num(h) == [type |-> "number", kind |-> "finite", halves |-> h]
NaN == [type |-> "number", kind |-> "NaN", halves |-> 0]
PosInfinity == [type |-> "number", kind |-> "+Infinity", halves |-> 0]
NegInfinity == [type |-> "number", kind |-> "-Infinity", halves |-> 0]
UndefinedNumber == [type |-> "undefined", kind |-> "NaN", halves |-> 0]
NullNumber == [type |-> "null", kind |-> "NaN", halves |-> 0]

\* Number(value)
ToNumber(value) ==
    CASE value.type = "number" -> value
      [] value.type = "undefined" -> NaN
      [] value.type = "null" -> Num(0)

\* Number.isFinite(n)
IsFinite(n) == n.kind = "finite"

\* n < k and n <= k for an integer k (false for NaN)
LessThan(n, k) ==
    CASE n.kind = "finite" -> n.halves < 2 * k
      [] n.kind = "-Infinity" -> TRUE
      [] OTHER -> FALSE
LessOrEqual(n, k) ==
    CASE n.kind = "finite" -> n.halves <= 2 * k
      [] n.kind = "-Infinity" -> TRUE
      [] OTHER -> FALSE

\* n * MILLISECONDS_PER_SECOND for a finite n
ToMilliseconds(n) == (n.halves * MILLISECONDS_PER_SECOND) \div 2

(* --------------------------- test inputs ------------------------------- *)

\* polling intervals and timeouts a caller may pass (seconds)
PollingIntervals ==
    {Num(h) : h \in -2..MaxIntervalHalves}
        \cup {NaN, PosInfinity, NegInfinity, UndefinedNumber, NullNumber}
Timeouts ==
    {Num(h) : h \in -2..MaxTimeoutHalves}
        \cup {NaN, PosInfinity, NegInfinity, UndefinedNumber, NullNumber}

\* status values a server (or a caller) may supply
RawStatuses ==
    { Str(JOB_STATUS_PENDING), Str(JOB_STATUS_RUNNING),
      Str(JOB_STATUS_COMPLETED), Str(JOB_STATUS_FAILED),
      Str(<<" ", "R", "U", "N", "N", "I", "N", "G", " ">>),
      Str(<<"C", "o", "m", "p", "l", "e", "t", "e", "d">>),
      Str(<<"F", "A", "I", "L", "E", "D", "\n">>),
      Str(<<>>), Str(<<" ", "\t">>),
      Str(<<"q", "u", "e", "u", "e", "d">>),
      Undefined }

\* extra time a timer or an HTTP exchange may take (milliseconds)
Delays == {(k * MILLISECONDS_PER_SECOND) \div 2 : k \in 0..MaxDelayHalves}

(* ------------------------------- state --------------------------------- *)

VARIABLES
    now,              \* Date.now()
    pc,               \* position of the single thread of control
    pollingInterval,  \* waitForJobCompletion argument
    timeout,          \* waitForJobCompletion argument
    initialStatus,    \* waitForJobCompletion argument
    startTime,        \* local of waitForJobCompletion
    timeoutMs,        \* local of waitForJobCompletion
    status,           \* local of waitForJobCompletion
    held,             \* history: the statuses `status` has held in this call
    sleeps,           \* history: sleeps started in this call
    polls,            \* history: status requests issued in this call
    response,         \* the last status response body's status field
    error,            \* the error thrown, if any
    log,              \* history: HTTP requests issued, in order
    op,               \* the operation of the current item
    param,            \* the resolved node parameters of the current item
    attachmentId,     \* local of executeScriptOperation
    submitResponse,   \* local of executeScriptOperation
    result,           \* local of the handler: the fetched job result
    cleanupErrorMessage,  \* local of executeScriptOperation
    binaryData,       \* local of downloadAllArtifacts: filename -> binary
    dlIndex,          \* position of downloadAllArtifacts in the artifact list
    record,           \* the record the handler returned, if any
    itemIndex,        \* loop variable of execute
    returnData,       \* local of execute: the output records
    continueOnFail,   \* this.continueOnFail()
    env,              \* the environment explored: which items the workflow
                      \* hands over and which answers the server gives
    loader,           \* the selection-list loader called: version and method
    listResponse,     \* local of the loader: the list request's answer
    options,          \* the options the loader returned
    hPc,              \* position of the historical waitForJobCompletion
    hNow,             \* Date.now() in the historical poller's run
    hStartTime,       \* local of the historical poller: startTime
    hTimeoutMs,       \* local of the historical poller: timeoutMs
    hStatus,          \* local of the historical poller: status
    hSleeps,          \* history: sleeps the historical poller started
    hPolls,           \* history: status requests it issued
    hError,           \* the error the historical poller threw, if any
    script            \* history: what the timers and the server did in the
                      \* historical poller's run, one entry per iteration

waitVars == <<pollingInterval, timeout, initialStatus, startTime, timeoutMs,
              status, held, sleeps, polls, response>>
handlerVars == <<op, param, attachmentId, submitResponse, result,
                 cleanupErrorMessage, binaryData, dlIndex, record>>
histVars == <<hPc, hNow, hStartTime, hTimeoutMs, hStatus, hSleeps, hPolls,
              hError, script>>
nodeVars == <<itemIndex, returnData, continueOnFail, env, histVars>>
loadVars == <<loader, listResponse, options>>
vars == <<now, pc, waitVars, error, log, handlerVars, nodeVars, loadVars>>

NoError == [kind |-> "none", op |-> "none", message |-> <<>>]
NoResponse == [type |-> "none", chars |-> <<>>]
NoArtifacts == [present |-> FALSE, list |-> <<>>]
NoResult == [status |-> NoResponse, error |-> Undefined, stderr |-> Undefined,
             artifacts |-> NoArtifacts]
NoRecord == [json |-> "none", binary |-> {}, hasBinary |-> FALSE]
NoLoader == [version |-> "none", method |-> "none"]
NoList == [present |-> FALSE, list |-> <<>>]
NoParam == [pythonCode |-> Undefined, jobId |-> Undefined,
            profileName |-> Undefined,
            cleanJobAfterExecution |-> FALSE, downloadArtifacts |-> FALSE,
            waitForCompletion |-> FALSE, inputBinaryProperty |-> <<>>,
            inputHasBinary |-> FALSE,
            pollingInterval |-> UndefinedNumber, timeout |-> UndefinedNumber]

\* an HTTP request, as the log keeps it: what is asked, and for which item
Request(kind, arg) == [kind |-> kind, arg |-> arg, item |-> itemIndex]

\* a throw: control leaves the current function with an error
ThrowMessage(kind, where, message) ==
    /\ pc' = "threw"
    /\ error' = [kind |-> kind, op |-> where, message |-> message]
Throw(kind, where) == ThrowMessage(kind, where, <<>>)

(* ------------------------ handler inputs ------------------------------- *)

\* node parameters of an execute-script item
ExecuteScriptParams ==
    {p \in [pythonCode : {Str(<<"x">>), Str(<<" ", "\n">>), Str(<<>>)},
            jobId : {Undefined},
            profileName : {Undefined},
            cleanJobAfterExecution : BOOLEAN,
            downloadArtifacts : BOOLEAN,
            waitForCompletion : BOOLEAN,
            inputBinaryProperty : {<<>>, <<" ", "data">>},
            inputHasBinary : BOOLEAN,
            pollingInterval : {Num(2), Num(1)},
            timeout : {Num(2), Num(0)}] :
        /\ p.inputBinaryProperty = <<>> => ~p.inputHasBinary
        /\ ~p.waitForCompletion => (p.pollingInterval = Num(2) /\ p.timeout = Num(2))}

\* node parameters of a get-result item
GetResultParams ==
    [pythonCode : {Undefined},
     jobId : {Str(<<"abc">>), Str(<<" ">>)},
     profileName : {Undefined},
     cleanJobAfterExecution : BOOLEAN,
     downloadArtifacts : BOOLEAN,
     waitForCompletion : {FALSE},
     inputBinaryProperty : {<<>>},
     inputHasBinary : {FALSE},
     pollingInterval : {UndefinedNumber},
     timeout : {UndefinedNumber}]

\* node parameters of an item that names a job (get-status, cleanup-job)
JobIdParams ==
    {[NoParam EXCEPT !.jobId = id] :
        id \in {Str(<<"abc">>), Str(<<>>), Str(<<" ", "\t">>), Str(<<" ", "abc">>)}}

\* node parameters of a cleanup-profile item
ProfileNameParams ==
    {[NoParam EXCEPT !.profileName = name] :
        name \in {Str(<<"work">>), Str(<<>>), Str(<<"\n">>)}}

\* attachment_id values an upload may answer with
AttachmentIds ==
    {Undefined, Str(<<" ">>), Str(<<" ", "att1">>), Str(<<"att2", "\n">>)}

\* status values of a fetched job result
ResultStatuses ==
    { Str(JOB_STATUS_FAILED), Str(<<"F", "A", "I", "L", "E", "D">>),
      Str(<<"f", "a", "i", "l", "e", "d", "\n">>),
      Str(JOB_STATUS_COMPLETED), Str(JOB_STATUS_RUNNING),
      Str(JOB_STATUS_PENDING), Undefined }

\* artifact lists of a fetched job result
ArtifactLists ==
    { NoArtifacts,
      [present |-> TRUE, list |-> <<>>],
      [present |-> TRUE, list |-> <<"shot.png">>],
      [present |-> TRUE, list |-> <<"shot.png", "page.html">>],
      [present |-> TRUE, list |-> <<"shot.png", "shot.png">>] }

\* job results a server may answer with
JobResults ==
    [status : ResultStatuses,
     error : {Undefined, Str(<<" ">>), Str(<<" ", "boom", "\n">>)},
     stderr : {Undefined, Str(<<>>), Str(<<"Trace...", "\n">>)},
     artifacts : ArtifactLists]

\* an input item: its operation and its resolved parameters
Item(operation, parameters) == [op |-> operation, param |-> parameters]

\* the items a workflow can hand to the node
Items ==
    {Item("executeScript", p) : p \in ExecuteScriptParams}
    \cup {Item("getResult", p) : p \in GetResultParams}
    \cup {Item("getStatus", p) : p \in JobIdParams}
    \cup {Item("cleanupJob", p) : p \in JobIdParams}
    \cup {Item("cleanupProfile", p) : p \in ProfileNameParams}
    \cup {Item("unknown", NoParam)}


\* the items of a run of the node
NodeItems ==
    {Item("executeScript",
          [NoParam EXCEPT !.pythonCode = code,
                          !.waitForCompletion = w,
                          !.cleanJobAfterExecution = TRUE,
                          !.downloadArtifacts = TRUE,
                          !.pollingInterval = Num(2),
                          !.timeout = Num(1)]) :
        code \in {Str(<<"x">>), Str(<<>>)}, w \in BOOLEAN}
    \cup
    {Item("executeScript",
          [NoParam EXCEPT !.pythonCode = Str(<<"x">>),
                          !.inputBinaryProperty = <<"data">>,
                          !.inputHasBinary = TRUE,
                          !.pollingInterval = Num(2),
                          !.timeout = Num(1)]),
     Item("getResult",
          [NoParam EXCEPT !.jobId = Str(<<"abc">>), !.downloadArtifacts = TRUE]),
     Item("getResult", [NoParam EXCEPT !.jobId = Str(<<"abc">>)]),
     Item("getStatus", [NoParam EXCEPT !.jobId = Str(<<"abc">>)]),
     Item("cleanupJob", [NoParam EXCEPT !.jobId = Str(<<"abc">>)]),
     Item("cleanupProfile", [NoParam EXCEPT !.profileName = Str(<<"work">>)]),
     Item("unknown", NoParam)}

\* the job results a server answers with in a run of the node
NodeResults ==
    {[NoResult EXCEPT !.status = Str(JOB_STATUS_COMPLETED),
                      !.artifacts = [present |-> TRUE, list |-> <<"shot.png">>]],
     [NoResult EXCEPT !.status = Str(JOB_STATUS_FAILED)]}

\* What the items and the server answers are drawn from.  One handler or one
\* poller call is explored with every input above ("any"); a run of several
\* items is explored with the few items and answers of a run, with timers
\* that fire on time and answers that take no time ("run").
EnvItems == IF env = "run" THEN NodeItems ELSE Items
\* When the two pollers are compared ("pair"), the canonical poller meets
\* the timers and the answers the historical poller met, as far as the
\* historical poller went; beyond that the server is free again.
PairDelays ==
    IF pc = "sleeping"
    THEN IF polls + 1 <= Len(script)
         THEN {script[polls + 1].extra} ELSE Delays
    ELSE IF polls <= Len(script) /\ script[polls].answered
         THEN {script[polls].delay} ELSE Delays
PairStatuses ==
    IF polls <= Len(script) /\ script[polls].answered
    THEN {script[polls].status} ELSE RawStatuses
EnvStatuses ==
    IF env = "run" THEN {Str(JOB_STATUS_PENDING), Str(JOB_STATUS_COMPLETED)}
    ELSE IF env = "pair" THEN PairStatuses
    ELSE RawStatuses
EnvDelays ==
    IF env = "run" THEN {0} ELSE IF env = "pair" THEN PairDelays ELSE Delays
EnvAttachmentIds == IF env = "run" THEN {Str(<<"att1">>)} ELSE AttachmentIds
EnvResults == IF env = "run" THEN NodeResults ELSE JobResults

(* ------------------- waitForJobCompletion (canonical) ------------------ *)

PollingIntervalInvalid_AllowsBelowOne(n) == ~IsFinite(n)
PollingIntervalInvalid(n) == ~IsFinite(n) \/ LessThan(n, 1)

TimeoutInvalid(n) == ~IsFinite(n) \/ LessOrEqual(n, 0)

\* the while condition
ShouldPoll_UntilCompleted(s) == s # JOB_STATUS_COMPLETED
ShouldPoll_PendingOnly(s) == s = JOB_STATUS_PENDING
ShouldPoll(s) == s = JOB_STATUS_PENDING \/ s = JOB_STATUS_RUNNING

IsKnownStatus(s) ==
    s \in {JOB_STATUS_PENDING, JOB_STATUS_RUNNING,
           JOB_STATUS_COMPLETED, JOB_STATUS_FAILED}

\* apiClient.ts 274-275: elapsedTime > timeoutMs
TimedOut_GraceSecond(elapsedTime, limit) ==
    elapsedTime > limit + MILLISECONDS_PER_SECOND
TimedOut(elapsedTime, limit) == elapsedTime > limit

\* apiClient.ts 276-280: what an exceeded deadline does
OnTimeout_Break == pc' = "wait_returned" /\ error' = error
OnTimeout == Throw("timeout", "waitForJobCompletion")

\* apiClient.ts 287-304: the checks on a polled status
ClassifyStatus_UnknownFirst(s) ==
    IF ~IsKnownStatus(s) THEN "unknown_status"
    ELSE IF s = <<>> THEN "empty_status" ELSE "ok"
ClassifyStatus(s) ==
    IF s = <<>> THEN "empty_status"
    ELSE IF ~IsKnownStatus(s) THEN "unknown_status" ELSE "ok"

\* apiClient.ts 247-264: validation of the two numbers
WaitValidate ==
    /\ pc = "wait_call"
    /\ IF PollingIntervalInvalid(ToNumber(pollingInterval))
       THEN Throw("validation", "pollingInterval")
       ELSE IF TimeoutInvalid(ToNumber(timeout))
            THEN Throw("validation", "timeout")
            ELSE pc' = "wait_init" /\ error' = error
    /\ UNCHANGED <<now, waitVars, log, handlerVars, nodeVars, loadVars>>

\* apiClient.ts 266-271: start of the clock, normalization of initialStatus
WaitInit ==
    /\ pc = "wait_init"
    /\ startTime' = now
    /\ timeoutMs' = ToMilliseconds(ToNumber(timeout))
    /\ status' = IF NormalizeStatus(initialStatus) = <<>>
                 THEN JOB_STATUS_PENDING
                 ELSE NormalizeStatus(initialStatus)
    /\ held' = <<status'>>
    /\ pc' = "loop_head"
    /\ UNCHANGED <<now, pollingInterval, timeout, initialStatus, sleeps,
                   polls, response, error, log, handlerVars, nodeVars, loadVars>>

\* apiClient.ts 273-283: loop condition, timeout check, start of the sleep
LoopHead_SleepNotAwaited ==
    /\ pc = "loop_head"
    /\ IF ShouldPoll(status)
       THEN IF TimedOut(now - startTime, timeoutMs)
            THEN OnTimeout /\ UNCHANGED <<sleeps, polls, log>>
            ELSE /\ pc' = "status_inflight"
                 /\ sleeps' = sleeps + 1
                 /\ polls' = polls + 1
                 /\ log' = Append(log, Request("status", ""))
                 /\ error' = error
       ELSE pc' = "wait_returned" /\ error' = error /\ UNCHANGED <<sleeps, polls, log>>
    /\ UNCHANGED <<now, pollingInterval, timeout, initialStatus, startTime,
                   timeoutMs, status, held, response, handlerVars, nodeVars, loadVars>>
LoopHead ==
    /\ pc = "loop_head"
    /\ IF ShouldPoll(status)
       THEN IF TimedOut(now - startTime, timeoutMs)
            THEN OnTimeout /\ sleeps' = sleeps
            ELSE pc' = "sleeping" /\ sleeps' = sleeps + 1 /\ error' = error
       ELSE pc' = "wait_returned" /\ sleeps' = sleeps /\ error' = error
    /\ UNCHANGED <<now, pollingInterval, timeout, initialStatus, startTime,
                   timeoutMs, status, held, polls, response, log, handlerVars, nodeVars, loadVars>>

\* apiClient.ts 283-285: the timer fires, the status request is issued
SleepDone ==
    /\ pc = "sleeping"
    /\ \E extra \in EnvDelays :
          now' = now + ToMilliseconds(ToNumber(pollingInterval)) + extra
    /\ polls' = polls + 1
    /\ log' = Append(log, Request("status", ""))
    /\ pc' = "status_inflight"
    /\ UNCHANGED <<pollingInterval, timeout, initialStatus, startTime,
                   timeoutMs, status, held, sleeps, response, error, handlerVars, nodeVars, loadVars>>

\* apiClient.ts 285-305: the answer arrives and is classified
StatusResponse_ChecksDeadline ==
    /\ pc = "status_inflight"
    /\ \E d \in EnvDelays, raw \in EnvStatuses :
          /\ now' = now + d
          /\ response' = raw
          /\ status' = NormalizeStatus(raw)
    /\ held' = Append(held, status')
    /\ IF TimedOut(now' - startTime, timeoutMs)
       THEN Throw("timeout", "waitForJobCompletion")
       ELSE IF ClassifyStatus(status') = "ok"
            THEN pc' = "loop_head" /\ error' = error
            ELSE Throw(ClassifyStatus(status'), "waitForJobCompletion")
    /\ UNCHANGED <<pollingInterval, timeout, initialStatus, startTime,
                   timeoutMs, sleeps, polls, log, handlerVars, nodeVars, loadVars>>
StatusResponse ==
    /\ pc = "status_inflight"
    /\ \E d \in EnvDelays, raw \in EnvStatuses :
          /\ now' = now + d
          /\ response' = raw
          /\ status' = NormalizeStatus(raw)
    /\ held' = Append(held, status')
    /\ IF ClassifyStatus(status') = "ok"
       THEN pc' = "loop_head" /\ error' = error
       ELSE Throw(ClassifyStatus(status'), "waitForJobCompletion")
    /\ UNCHANGED <<pollingInterval, timeout, initialStatus, startTime,
                   timeoutMs, sleeps, polls, log, handlerVars, nodeVars, loadVars>>

\* apiClient.ts 136: `Failed to get job status for job ${jobId}`
StatusErrorMessage(jobId) == <<"Failed to get job status for job ">> \o jobId

\* apiClient.ts 44-56, 130-139: the status request fails in transport
StatusFailure_Retried ==
    /\ pc = "status_inflight"
    /\ \E d \in EnvDelays : now' = now + d
    /\ pc' = "loop_head"
    /\ UNCHANGED <<waitVars, error, log, handlerVars, nodeVars, loadVars>>
StatusFailure ==
    /\ pc = "status_inflight"
    /\ \E d \in EnvDelays : now' = now + d
    /\ ThrowMessage("api", "getJobStatus", StatusErrorMessage(<<"abc">>))
    /\ UNCHANGED <<waitVars, log, handlerVars, nodeVars, loadVars>>

(* ------------------- waitForJobCompletion (historical) ----------------- *)

\* part_000 280: status === JOB_STATUS.PENDING || status === JOB_STATUS.RUNNING
HistShouldPoll(value) ==
    /\ value.type = "string"
    /\ (value.chars = JOB_STATUS_PENDING \/ value.chars = JOB_STATUS_RUNNING)

\* part_000 297: status === JOB_STATUS.FAILED
HistIsFailed_Never(value) == FALSE
HistIsFailed(value) == value.type = "string" /\ value.chars = JOB_STATUS_FAILED

\* one iteration's timer and server behaviour, as the historical poller met it
Answer(extra, delay, value, answered) ==
    [extra |-> extra, delay |-> delay, status |-> value, answered |-> answered]

\* part_000 276-278: start of the clock; the arguments are taken as they are
HistInit ==
    /\ hPc = "h_call"
    /\ hStartTime' = hNow
    /\ hTimeoutMs' = ToMilliseconds(timeout)
    /\ hStatus' = initialStatus
    /\ hPc' = "h_loop_head"
    /\ UNCHANGED <<now, pc, waitVars, error, log, handlerVars, itemIndex,
                   returnData, continueOnFail, env, hNow, hSleeps, hPolls,
                   hError, script, loadVars>>

\* part_000 280-291, 297-303: loop condition, timeout check, start of the
\* sleep; after the loop a failed status is thrown
HistLoopHead ==
    /\ hPc = "h_loop_head"
    /\ IF HistShouldPoll(hStatus)
       THEN IF TimedOut(hNow - hStartTime, hTimeoutMs)
            THEN hPc' = "h_threw" /\ hError' = "timeout" /\ hSleeps' = hSleeps
            ELSE hPc' = "h_sleeping" /\ hError' = hError /\ hSleeps' = hSleeps + 1
       ELSE IF HistIsFailed(hStatus)
            THEN hPc' = "h_threw" /\ hError' = "jobFailed" /\ hSleeps' = hSleeps
            ELSE hPc' = "h_returned" /\ hError' = hError /\ hSleeps' = hSleeps
    /\ UNCHANGED <<now, pc, waitVars, error, log, handlerVars, itemIndex,
                   returnData, continueOnFail, env, hNow, hStartTime,
                   hTimeoutMs, hStatus, hPolls, script, loadVars>>

\* part_000 291-293: the timer fires, the status request is issued
HistSleepDone ==
    /\ hPc = "h_sleeping"
    /\ \E extra \in Delays :
          /\ hNow' = hNow + ToMilliseconds(pollingInterval) + extra
          /\ script' = Append(script, Answer(extra, 0, Undefined, FALSE))
    /\ hPolls' = hPolls + 1
    /\ hPc' = "h_status_inflight"
    /\ UNCHANGED <<now, pc, waitVars, error, log, handlerVars, itemIndex,
                   returnData, continueOnFail, env, hStartTime, hTimeoutMs,
                   hStatus, hSleeps, hError, loadVars>>

\* part_000 293-294: the answer arrives; its status is kept as it is
HistStatusResponse ==
    /\ hPc = "h_status_inflight"
    /\ \E d \in Delays, raw \in RawStatuses :
          /\ hNow' = hNow + d
          /\ hStatus' = raw
          /\ script' = [script EXCEPT ![hPolls] =
                            Answer(script[hPolls].extra, d, raw, TRUE)]
    /\ hPc' = "h_loop_head"
    /\ UNCHANGED <<now, pc, waitVars, error, log, handlerVars, itemIndex,
                   returnData, continueOnFail, env, hStartTime, hTimeoutMs,
                   hSleeps, hPolls, hError, loadVars>>

\* part_000 90-104: the status request fails in transport
HistStatusFailure ==
    /\ hPc = "h_status_inflight"
    /\ \E d \in Delays : hNow' = hNow + d
    /\ hPc' = "h_threw"
    /\ hError' = "api"
    /\ UNCHANGED <<now, pc, waitVars, error, log, handlerVars, itemIndex,
                   returnData, continueOnFail, env, hStartTime, hTimeoutMs,
                   hStatus, hSleeps, hPolls, script, loadVars>>

\* the canonical poller is called with the same arguments once the
\* historical one has ended
CanonicalCall ==
    /\ pc = "not_called"
    /\ hPc \in {"h_returned", "h_threw"}
    /\ pc' = "wait_call"
    /\ UNCHANGED <<now, waitVars, error, log, handlerVars, nodeVars, loadVars>>

(* ----------------------------- helpers --------------------------------- *)

\* part_007 13: value && value.trim() !== ''
RequiredStringPresent_NoTrim(value) ==
    value.type = "string" /\ value.chars # <<>>
RequiredStringPresent(value) ==
    value.type = "string" /\ value.chars # <<>> /\ Trim(value.chars) # <<>>

\* part_007 25-35: getErrorMessage
GetErrorMessage(err) ==
    IF err.message # <<>> THEN err.message ELSE <<"Unknown error">>

\* types.ts 222: typeof result.status === 'string' &&
\*               result.status.toLowerCase() === 'failed'
ResultIsFailed_Never(r) == FALSE
ResultIsFailed_CaseSensitive(r) ==
    r.status.type = "string" /\ r.status.chars = JOB_STATUS_FAILED
ResultIsFailed(r) ==
    r.status.type = "string" /\ ToLowerCase(r.status.chars) = JOB_STATUS_FAILED

\* typeof value === 'string' ? value.trim() : ''
TrimmedOrEmpty(value) == IF value.type = "string" THEN Trim(value.chars) ELSE <<>>

\* values.filter((value) => value !== '').join('\n\n')
RECURSIVE JoinNonEmpty(_)
JoinNonEmpty(values) ==
    IF values = <<>> THEN <<>>
    ELSE LET rest == JoinNonEmpty(Tail(values))
         IN  IF Head(values) = <<>> THEN rest
             ELSE IF rest = <<>> THEN Head(values)
             ELSE Head(values) \o <<"\n\n">> \o rest

\* types.ts 232: the text added for a failed cleanup
CleanupErrorText(message) ==
    IF message.type = "string" /\ message.chars # <<>>
    THEN <<"Cleanup also failed: ">> \o message.chars
    ELSE <<>>

\* types.ts 230-239: the message of the job-failed error
FailureDetails(r, cleanupMessage) ==
    JoinNonEmpty(<<TrimmedOrEmpty(r.error), TrimmedOrEmpty(r.stderr),
                   CleanupErrorText(cleanupMessage)>>)
JobFailedMessage(r, cleanupMessage) ==
    IF FailureDetails(r, cleanupMessage) # <<>>
    THEN <<"Job abc failed", ":", "\n\n">> \o FailureDetails(r, cleanupMessage)
    ELSE <<"Job abc failed", ".">>

\* apiClient.ts 185: !result.artifacts || result.artifacts.length === 0
NothingToDownload_Never(r) == FALSE
NothingToDownload(r) == ~r.artifacts.present \/ Len(r.artifacts.list) = 0

\* apiClient.ts 190: binaryData[artifact.filename] = ...
PutBinary_Overwrites(mapping, filename, blob) == {<<filename, blob>>}
PutBinary(mapping, filename, blob) ==
    {e \in mapping : e[1] # filename} \cup {<<filename, blob>>}

\* apiClient.ts 112-114: the attachment_id of the submit payload; none is
\* sent for a missing or blank id
PayloadAttachmentId(id) == TrimmedOrEmpty(id)

\* a return of the handler with its record
Return(json, binary) ==
    /\ pc' = "handler_returned"
    /\ record' = [json |-> json, binary |-> binary, hasBinary |-> binary # {}]

(* ------------------------ the operation handlers ----------------------- *)

\* part_003 9-15: the operations that have a handler
OperationHandlers ==
    {"cleanupJob", "cleanupProfile", "executeScript", "getResult", "getStatus"}

\* SeleniumBase.node.ts 52-65: the handler of the item's operation is called
HandlerCall ==
    /\ pc = "handler_call"
    /\ \E item \in EnvItems : op' = item.op /\ param' = item.param
    /\ IF op' \in OperationHandlers
       THEN pc' = "op_start" /\ error' = error
       ELSE Throw("operation", "unknownOperation")
    /\ attachmentId' = Undefined
    /\ submitResponse' = NoResponse
    /\ result' = NoResult
    /\ cleanupErrorMessage' = Undefined
    /\ binaryData' = {}
    /\ dlIndex' = 0
    /\ record' = NoRecord
    /\ UNCHANGED <<now, waitVars, log, nodeVars, loadVars>>

\* types.ts 105-189: validation, then the upload or the submit request
ExecuteScriptStart ==
    /\ pc = "op_start" /\ op = "executeScript"
    /\ IF ~RequiredStringPresent(param.pythonCode)
       THEN Throw("validation", "pythonCode") /\ log' = log
       ELSE IF Trim(param.inputBinaryProperty) # <<>>
            THEN IF ~param.inputHasBinary
                 THEN Throw("operation", "attachmentNotFound") /\ log' = log
                 ELSE /\ log' = Append(log, Request("upload", ""))
                      /\ pc' = "upload_inflight"
                      /\ error' = error
            ELSE /\ log' = Append(log, Request("submit", PayloadAttachmentId(attachmentId)))
                 /\ pc' = "submit_inflight"
                 /\ error' = error
    /\ UNCHANGED <<now, waitVars, handlerVars, nodeVars, loadVars>>

\* types.ts 164-189: the upload answers; the submit request follows
UploadResponse_NoIdCheck ==
    /\ pc = "upload_inflight"
    /\ \E id \in EnvAttachmentIds :
          /\ attachmentId' = Str(TrimmedOrEmpty(id))
          /\ log' = Append(log, Request("submit", PayloadAttachmentId(attachmentId')))
          /\ pc' = "submit_inflight"
          /\ error' = error
    /\ UNCHANGED <<now, waitVars, op, param, submitResponse, result,
                   cleanupErrorMessage, binaryData, dlIndex, record, nodeVars, loadVars>>
UploadResponse ==
    /\ pc = "upload_inflight"
    /\ \E id \in EnvAttachmentIds :
          IF TrimmedOrEmpty(id) = <<>>
          THEN /\ Throw("operation", "attachmentIdMissing")
               /\ UNCHANGED <<attachmentId, log>>
          ELSE /\ attachmentId' = Str(TrimmedOrEmpty(id))
               /\ log' = Append(log, Request("submit", PayloadAttachmentId(attachmentId')))
               /\ pc' = "submit_inflight"
               /\ error' = error
    /\ UNCHANGED <<now, waitVars, op, param, submitResponse, result,
                   cleanupErrorMessage, binaryData, dlIndex, record, nodeVars, loadVars>>

\* apiClient.ts 44-56, 83-93: the upload fails in transport
UploadFailure ==
    /\ pc = "upload_inflight"
    /\ Throw("api", "uploadAttachment")
    /\ UNCHANGED <<now, waitVars, log, handlerVars, nodeVars, loadVars>>

\* types.ts 183-219: the submit answers; return it, or start to wait
SubmitResponse_AlwaysWaits ==
    /\ pc = "submit_inflight"
    /\ \E st \in EnvStatuses : submitResponse' = st
    /\ pollingInterval' = param.pollingInterval
    /\ timeout' = param.timeout
    /\ initialStatus' = submitResponse'
    /\ pc' = "wait_call"
    /\ UNCHANGED <<now, startTime, timeoutMs, status, held, sleeps, polls,
                   response, error, log, op, param, attachmentId, result,
                   cleanupErrorMessage, binaryData, dlIndex, record, nodeVars, loadVars>>
SubmitResponse ==
    /\ pc = "submit_inflight"
    /\ \E st \in EnvStatuses : submitResponse' = st
    /\ IF ~param.waitForCompletion
       THEN /\ Return("submitResponse", {})
            /\ UNCHANGED <<pollingInterval, timeout, initialStatus>>
       ELSE /\ pollingInterval' = param.pollingInterval
            /\ timeout' = param.timeout
            /\ initialStatus' = submitResponse'
            /\ pc' = "wait_call"
            /\ record' = record
    /\ UNCHANGED <<now, startTime, timeoutMs, status, held, sleeps, polls,
                   response, error, log, op, param, attachmentId, result,
                   cleanupErrorMessage, binaryData, dlIndex, nodeVars, loadVars>>

\* apiClient.ts 44-56, 116-127: the submit fails in transport
SubmitFailure ==
    /\ pc = "submit_inflight"
    /\ Throw("api", "submitJob")
    /\ UNCHANGED <<now, waitVars, log, handlerVars, nodeVars, loadVars>>

\* the locals of waitForJobCompletion end with its call
WaitFrameDropped ==
    /\ pollingInterval' = UndefinedNumber
    /\ timeout' = UndefinedNumber
    /\ initialStatus' = Undefined
    /\ startTime' = 0
    /\ timeoutMs' = 0
    /\ status' = <<>>
    /\ held' = <<>>
    /\ sleeps' = 0
    /\ polls' = 0
    /\ response' = NoResponse

\* types.ts 213-221: the poller returned; the result request is issued
ExecuteScriptFetch ==
    /\ pc = "wait_returned" /\ op = "executeScript"
    /\ WaitFrameDropped
    /\ log' = Append(log, Request("result", ""))
    /\ pc' = "result_inflight"
    /\ UNCHANGED <<now, error, handlerVars, nodeVars, loadVars>>

\* types.ts 26-51: validation, then the result request
GetResultStart ==
    /\ pc = "op_start" /\ op = "getResult"
    /\ IF ~RequiredStringPresent(param.jobId)
       THEN Throw("validation", "jobId") /\ log' = log
       ELSE /\ log' = Append(log, Request("result", ""))
            /\ pc' = "result_inflight"
            /\ error' = error
    /\ UNCHANGED <<now, waitVars, handlerVars, nodeVars, loadVars>>

\* apiClient.ts 44-56, 141-150: the result request fails in transport
ResultFailure ==
    /\ pc = "result_inflight"
    /\ Throw("api", "getJobResult")
    /\ UNCHANGED <<now, waitVars, log, handlerVars, nodeVars, loadVars>>

\* types.ts 221-242: the result answers; a failed job is cleaned up (if
\* enabled) and raised, any other result goes on to the downloads
ExecuteScriptResult ==
    /\ pc = "result_inflight" /\ op = "executeScript"
    /\ \E r \in EnvResults : result' = r
    /\ IF ResultIsFailed(result')
       THEN IF param.cleanJobAfterExecution
            THEN /\ log' = Append(log, Request("deleteJob", ""))
                 /\ pc' = "failure_cleanup_inflight"
                 /\ error' = error
            ELSE /\ ThrowMessage("jobFailed", "executeScript",
                                 JobFailedMessage(result', cleanupErrorMessage))
                 /\ log' = log
       ELSE pc' = "after_result" /\ error' = error /\ log' = log
    /\ UNCHANGED <<now, waitVars, op, param, attachmentId, submitResponse,
                   cleanupErrorMessage, binaryData, dlIndex, record, nodeVars, loadVars>>

\* types.ts 225-241, part_007 40-49: the cleanup of a failed job answers
FailureCleanupResponse ==
    /\ pc = "failure_cleanup_inflight"
    /\ cleanupErrorMessage' = Undefined
    /\ ThrowMessage("jobFailed", "executeScript",
                    JobFailedMessage(result, cleanupErrorMessage'))
    /\ UNCHANGED <<now, waitVars, log, op, param, attachmentId, submitResponse,
                   result, binaryData, dlIndex, record, nodeVars, loadVars>>

\* types.ts 225-241, part_007 40-49: the cleanup of a failed job fails
FailureCleanupFailure_Propagates ==
    /\ pc = "failure_cleanup_inflight"
    /\ Throw("api", "cleanupJob")
    /\ UNCHANGED <<now, waitVars, log, handlerVars, nodeVars, loadVars>>
FailureCleanupFailure ==
    /\ pc = "failure_cleanup_inflight"
    /\ cleanupErrorMessage' =
          Str(GetErrorMessage([message |-> <<"Failed to cleanup job abc">>]))
    /\ ThrowMessage("jobFailed", "executeScript",
                    JobFailedMessage(result, cleanupErrorMessage'))
    /\ UNCHANGED <<now, waitVars, log, op, param, attachmentId, submitResponse,
                   result, binaryData, dlIndex, record, nodeVars, loadVars>>

\* types.ts 51: the result answers a get-result item
GetResultResult_InspectsStatus ==
    /\ pc = "result_inflight" /\ op = "getResult"
    /\ \E r \in EnvResults :
          /\ result' = r
          /\ IF ResultIsFailed(r)
             THEN Throw("jobFailed", "getResult")
             ELSE pc' = "after_result" /\ error' = error
    /\ UNCHANGED <<now, waitVars, log, op, param, attachmentId,
                   submitResponse, cleanupErrorMessage, binaryData, dlIndex,
                   record, nodeVars, loadVars>>
GetResultResult ==
    /\ pc = "result_inflight" /\ op = "getResult"
    /\ \E r \in EnvResults : result' = r
    /\ pc' = "after_result"
    /\ UNCHANGED <<now, waitVars, error, log, op, param, attachmentId,
                   submitResponse, cleanupErrorMessage, binaryData, dlIndex,
                   record, nodeVars, loadVars>>

\* types.ts 244-252 (67-75) without downloads: cleanup request, or return
SkipDownload ==
    /\ pc = "after_result" /\ ~param.downloadArtifacts
    /\ IF param.cleanJobAfterExecution
       THEN /\ log' = Append(log, Request("deleteJob", ""))
            /\ pc' = "cleanup_inflight"
            /\ record' = record
       ELSE Return("result", {}) /\ log' = log
    /\ UNCHANGED <<now, waitVars, error, op, param, attachmentId,
                   submitResponse, result, cleanupErrorMessage, binaryData,
                   dlIndex, nodeVars, loadVars>>

\* apiClient.ts 178-190: downloadAllArtifacts is called
DownloadAllCall ==
    /\ pc = "after_result" /\ param.downloadArtifacts
    /\ binaryData' = {}
    /\ IF NothingToDownload(result)
       THEN pc' = "downloaded" /\ dlIndex' = dlIndex /\ log' = log /\ error' = error
       ELSE IF ~result.artifacts.present
            THEN Throw("type", "downloadAllArtifacts") /\ dlIndex' = dlIndex /\ log' = log
       ELSE IF Len(result.artifacts.list) = 0
            THEN pc' = "downloaded" /\ dlIndex' = dlIndex /\ log' = log /\ error' = error
            ELSE /\ dlIndex' = 1
                 /\ log' = Append(log, Request("artifact", result.artifacts.list[1]))
                 /\ pc' = "artifact_inflight"
                 /\ error' = error
    /\ UNCHANGED <<now, waitVars, op, param, attachmentId, submitResponse,
                   result, cleanupErrorMessage, record, nodeVars, loadVars>>

\* apiClient.ts 160-176, 189-193: an artifact answers; next one, or return
ArtifactResponse ==
    /\ pc = "artifact_inflight"
    /\ binaryData' = PutBinary(binaryData, result.artifacts.list[dlIndex], dlIndex)
    /\ IF dlIndex < Len(result.artifacts.list)
       THEN /\ dlIndex' = dlIndex + 1
            /\ log' = Append(log, Request("artifact", result.artifacts.list[dlIndex + 1]))
            /\ pc' = pc
       ELSE pc' = "downloaded" /\ dlIndex' = dlIndex /\ log' = log
    /\ UNCHANGED <<now, waitVars, error, op, param, attachmentId,
                   submitResponse, result, cleanupErrorMessage, record, nodeVars, loadVars>>

\* apiClient.ts 44-56, 160-170: an artifact download fails in transport
ArtifactFailure_CleansUp ==
    /\ pc = "artifact_inflight"
    /\ IF param.cleanJobAfterExecution
       THEN /\ log' = Append(log, Request("deleteJob", ""))
            /\ pc' = "cleanup_inflight"
            /\ error' = error
       ELSE Throw("api", "downloadArtifact") /\ log' = log
    /\ UNCHANGED <<now, waitVars, handlerVars, nodeVars, loadVars>>
ArtifactFailure_SkipsArtifact ==
    /\ pc = "artifact_inflight"
    /\ IF dlIndex < Len(result.artifacts.list)
       THEN /\ dlIndex' = dlIndex + 1
            /\ log' = Append(log, Request("artifact", result.artifacts.list[dlIndex + 1]))
            /\ pc' = pc
       ELSE pc' = "downloaded" /\ dlIndex' = dlIndex /\ log' = log
    /\ UNCHANGED <<now, waitVars, error, op, param, attachmentId,
                   submitResponse, result, cleanupErrorMessage, binaryData,
                   record, nodeVars, loadVars>>
ArtifactFailure ==
    /\ pc = "artifact_inflight"
    /\ Throw("api", "downloadArtifact")
    /\ UNCHANGED <<now, waitVars, log, handlerVars, nodeVars, loadVars>>

\* types.ts 246-258 (69-81): downloadAllArtifacts returned; cleanup or return
AfterDownload_AlwaysCleans ==
    /\ pc = "downloaded"
    /\ log' = Append(log, Request("deleteJob", ""))
    /\ pc' = "cleanup_inflight"
    /\ UNCHANGED <<now, waitVars, error, op, param, attachmentId,
                   submitResponse, result, cleanupErrorMessage, binaryData,
                   dlIndex, record, nodeVars, loadVars>>
AfterDownload ==
    /\ pc = "downloaded"
    /\ IF param.cleanJobAfterExecution
       THEN /\ log' = Append(log, Request("deleteJob", ""))
            /\ pc' = "cleanup_inflight"
            /\ record' = record
       ELSE Return("result", binaryData) /\ log' = log
    /\ UNCHANGED <<now, waitVars, error, op, param, attachmentId,
                   submitResponse, result, cleanupErrorMessage, binaryData,
                   dlIndex, nodeVars, loadVars>>

\* types.ts 250-258 (73-81): the cleanup answers; the record is returned
CleanupResponse ==
    /\ pc = "cleanup_inflight"
    /\ Return("result", binaryData)
    /\ UNCHANGED <<now, waitVars, error, log, op, param, attachmentId,
                   submitResponse, result, cleanupErrorMessage, binaryData,
                   dlIndex, nodeVars, loadVars>>

\* apiClient.ts 44-56, 196-205: the cleanup fails in transport
CleanupFailure ==
    /\ pc = "cleanup_inflight"
    /\ Throw("api", "cleanupJob")
    /\ UNCHANGED <<now, waitVars, log, handlerVars, nodeVars, loadVars>>

\* types.ts 21-28: get-status validates the job id, then asks for the status
GetStatusStart ==
    /\ pc = "op_start" /\ op = "getStatus"
    /\ IF ~RequiredStringPresent(param.jobId)
       THEN Throw("validation", "jobId") /\ log' = log
       ELSE /\ log' = Append(log, Request("status", ""))
            /\ pc' = "get_status_inflight"
            /\ error' = error
    /\ UNCHANGED <<now, waitVars, handlerVars, nodeVars, loadVars>>

\* types.ts 28-34: the status answers; it is returned as the record
GetStatusResponse ==
    /\ pc = "get_status_inflight"
    /\ Return("statusResponse", {})
    /\ UNCHANGED <<now, waitVars, error, log, op, param, attachmentId,
                   submitResponse, result, cleanupErrorMessage, binaryData,
                   dlIndex, nodeVars, loadVars>>

\* apiClient.ts 44-56, 130-139: the status request of get-status fails
GetStatusFailure ==
    /\ pc = "get_status_inflight"
    /\ ThrowMessage("api", "getJobStatus", StatusErrorMessage(param.jobId.chars))
    /\ UNCHANGED <<now, waitVars, log, handlerVars, nodeVars, loadVars>>

\* part_002 6-14: cleanup-job validates the job id, then issues the DELETE
CleanupJobStart ==
    /\ pc = "op_start" /\ op = "cleanupJob"
    /\ IF ~RequiredStringPresent(param.jobId)
       THEN Throw("validation", "jobId") /\ log' = log
       ELSE /\ log' = Append(log, Request("deleteJob", ""))
            /\ pc' = "delete_job_inflight"
            /\ error' = error
    /\ UNCHANGED <<now, waitVars, handlerVars, nodeVars, loadVars>>

\* part_002 14-19: the DELETE answers; a message is returned
CleanupJobResponse ==
    /\ pc = "delete_job_inflight"
    /\ Return("message", {})
    /\ UNCHANGED <<now, waitVars, error, log, op, param, attachmentId,
                   submitResponse, result, cleanupErrorMessage, binaryData,
                   dlIndex, nodeVars, loadVars>>

\* apiClient.ts 44-56, 196-205: the DELETE of cleanup-job fails
CleanupJobFailure ==
    /\ pc = "delete_job_inflight"
    /\ Throw("api", "cleanupJob")
    /\ UNCHANGED <<now, waitVars, log, handlerVars, nodeVars, loadVars>>

\* cleanupProfile.ts 6-14: cleanup-profile validates the name, then DELETEs
CleanupProfileStart ==
    /\ pc = "op_start" /\ op = "cleanupProfile"
    /\ IF ~RequiredStringPresent(param.profileName)
       THEN Throw("validation", "profileName") /\ log' = log
       ELSE /\ log' = Append(log, Request("deleteProfile", ""))
            /\ pc' = "delete_profile_inflight"
            /\ error' = error
    /\ UNCHANGED <<now, waitVars, handlerVars, nodeVars, loadVars>>

\* cleanupProfile.ts 14-19: the DELETE answers; a message is returned
CleanupProfileResponse ==
    /\ pc = "delete_profile_inflight"
    /\ Return("message", {})
    /\ UNCHANGED <<now, waitVars, error, log, op, param, attachmentId,
                   submitResponse, result, cleanupErrorMessage, binaryData,
                   dlIndex, nodeVars, loadVars>>

\* apiClient.ts 44-56, 229-238: the DELETE of cleanup-profile fails
CleanupProfileFailure ==
    /\ pc = "delete_profile_inflight"
    /\ Throw("api", "cleanupProfile")
    /\ UNCHANGED <<now, waitVars, log, handlerVars, nodeVars, loadVars>>

(* ------------------------- the node's execute ------------------------- *)

\* the locals of a handler end with its call
HandlerFrameDropped ==
    /\ op' = "none"
    /\ param' = NoParam
    /\ attachmentId' = Undefined
    /\ submitResponse' = NoResponse
    /\ result' = NoResult
    /\ cleanupErrorMessage' = Undefined
    /\ binaryData' = {}
    /\ dlIndex' = 0
    /\ record' = NoRecord

\* SeleniumBase.node.ts 44-50: input items, credentials, start of the loop
ExecuteStart ==
    /\ pc = "execute_call"
    /\ returnData' = <<>>
    /\ itemIndex' = 0
    /\ \/ pc' = "loop_test" /\ error' = error
       \/ pc' = "run_failed" /\
          error' = [kind |-> "credentials", op |-> "execute", message |-> <<>>]
    /\ UNCHANGED <<now, waitVars, log, handlerVars, continueOnFail, env, histVars, loadVars>>

\* SeleniumBase.node.ts 50, 86: the loop condition; the return after the loop
LoopTest ==
    /\ pc = "loop_test"
    /\ pc' = IF itemIndex < NumItems THEN "handler_call" ELSE "run_returned"
    /\ UNCHANGED <<now, waitVars, error, log, handlerVars, nodeVars, loadVars>>

\* SeleniumBase.node.ts 60-66: the handler's record is pushed, next item
ItemReturned_NotAwaited ==
    /\ pc \in {"handler_returned", "submit_inflight"}
    /\ returnData' = Append(returnData,
          [json |-> record.json, binary |-> record.binary,
           error |-> NoError, pairedItem |-> itemIndex])
    /\ itemIndex' = itemIndex + 1
    /\ pc' = "loop_test"
    /\ WaitFrameDropped
    /\ HandlerFrameDropped
    /\ UNCHANGED <<now, error, log, continueOnFail, env, histVars, loadVars>>
ItemReturned ==
    /\ pc = "handler_returned"
    /\ returnData' = Append(returnData,
          [json |-> record.json, binary |-> record.binary,
           error |-> NoError, pairedItem |-> itemIndex])
    /\ itemIndex' = itemIndex + 1
    /\ pc' = "loop_test"
    /\ WaitFrameDropped
    /\ HandlerFrameDropped
    /\ UNCHANGED <<now, error, log, continueOnFail, env, histVars, loadVars>>

\* SeleniumBase.node.ts 67-83: the catch block of the loop body
ItemCaught_DropsItem ==
    /\ pc = "threw"
    /\ IF continueOnFail
       THEN /\ returnData' = returnData
            /\ itemIndex' = itemIndex + 1
            /\ pc' = "loop_test"
            /\ error' = NoError
       ELSE /\ pc' = "run_failed"
            /\ UNCHANGED <<returnData, itemIndex, error>>
    /\ WaitFrameDropped
    /\ HandlerFrameDropped
    /\ UNCHANGED <<now, log, continueOnFail, env, histVars, loadVars>>
ItemCaught ==
    /\ pc = "threw"
    /\ IF continueOnFail
       THEN /\ returnData' = Append(returnData,
                  [json |-> "error", binary |-> {},
                   error |-> error,
                   pairedItem |-> itemIndex])
            /\ itemIndex' = itemIndex + 1
            /\ pc' = "loop_test"
            /\ error' = NoError
       ELSE /\ pc' = "run_failed"
            /\ UNCHANGED <<returnData, itemIndex, error>>
    /\ WaitFrameDropped
    /\ HandlerFrameDropped
    /\ UNCHANGED <<now, log, continueOnFail, env, histVars, loadVars>>

(* --------- specification: waitForJobCompletion called directly --------- *)

InitWait ==
    /\ now = 0
    /\ pc = "wait_call"
    /\ pollingInterval \in PollingIntervals
    /\ timeout \in Timeouts
    /\ initialStatus \in RawStatuses
    /\ startTime = 0
    /\ timeoutMs = 0
    /\ status = <<>>
    /\ held = <<>>
    /\ sleeps = 0
    /\ polls = 0
    /\ response = NoResponse
    /\ error = NoError
    /\ log = <<>>
    /\ op = "none"
    /\ param = NoParam
    /\ attachmentId = Undefined
    /\ submitResponse = NoResponse
    /\ result = NoResult
    /\ cleanupErrorMessage = Undefined
    /\ binaryData = {}
    /\ dlIndex = 0
    /\ record = NoRecord
    /\ itemIndex = 0
    /\ returnData = <<>>
    /\ continueOnFail = FALSE
    /\ env = "any"
    /\ hPc = "none"
    /\ hNow = 0
    /\ hStartTime = 0
    /\ hTimeoutMs = 0
    /\ hStatus = Undefined
    /\ hSleeps = 0
    /\ hPolls = 0
    /\ hError = "none"
    /\ script = <<>>
    /\ loader = NoLoader
    /\ listResponse = NoList
    /\ options = <<>>

NextWait ==
    \/ WaitValidate
    \/ WaitInit
    \/ LoopHead
    \/ SleepDone
    \/ StatusResponse
    \/ StatusFailure

SpecWait == InitWait /\ [][NextWait]_vars

(* ------------- specification: one item through its handler ------------ *)

\* Only waitForJobCompletion reads the clock, and only as a difference, so
\* the exchanges of the handlers are not given a duration.
InitExec ==
    /\ now = 0
    /\ pc = "handler_call"
    /\ pollingInterval = UndefinedNumber
    /\ timeout = UndefinedNumber
    /\ initialStatus = Undefined
    /\ startTime = 0
    /\ timeoutMs = 0
    /\ status = <<>>
    /\ held = <<>>
    /\ sleeps = 0
    /\ polls = 0
    /\ response = NoResponse
    /\ error = NoError
    /\ log = <<>>
    /\ op = "none"
    /\ param = NoParam
    /\ attachmentId = Undefined
    /\ submitResponse = NoResponse
    /\ result = NoResult
    /\ cleanupErrorMessage = Undefined
    /\ binaryData = {}
    /\ dlIndex = 0
    /\ record = NoRecord
    /\ itemIndex = 0
    /\ returnData = <<>>
    /\ continueOnFail = FALSE
    /\ env = "any"
    /\ hPc = "none"
    /\ hNow = 0
    /\ hStartTime = 0
    /\ hTimeoutMs = 0
    /\ hStatus = Undefined
    /\ hSleeps = 0
    /\ hPolls = 0
    /\ hError = "none"
    /\ script = <<>>
    /\ loader = NoLoader
    /\ listResponse = NoList
    /\ options = <<>>

NextExec ==
    \/ HandlerCall
    \/ ExecuteScriptStart
    \/ UploadResponse
    \/ UploadFailure
    \/ SubmitResponse
    \/ SubmitFailure
    \/ WaitValidate
    \/ WaitInit
    \/ LoopHead
    \/ SleepDone
    \/ StatusResponse
    \/ StatusFailure
    \/ ExecuteScriptFetch
    \/ GetResultStart
    \/ ResultFailure
    \/ ExecuteScriptResult
    \/ FailureCleanupResponse
    \/ FailureCleanupFailure
    \/ GetResultResult
    \/ SkipDownload
    \/ DownloadAllCall
    \/ ArtifactResponse
    \/ ArtifactFailure
    \/ AfterDownload
    \/ CleanupResponse
    \/ CleanupFailure
    \/ GetStatusStart
    \/ GetStatusResponse
    \/ GetStatusFailure
    \/ CleanupJobStart
    \/ CleanupJobResponse
    \/ CleanupJobFailure
    \/ CleanupProfileStart
    \/ CleanupProfileResponse
    \/ CleanupProfileFailure

SpecExec == InitExec /\ [][NextExec]_vars

(* ------------------ specification: a run of the node ------------------ *)

Init ==
    /\ now = 0
    /\ pc = "execute_call"
    /\ pollingInterval = UndefinedNumber
    /\ timeout = UndefinedNumber
    /\ initialStatus = Undefined
    /\ startTime = 0
    /\ timeoutMs = 0
    /\ status = <<>>
    /\ held = <<>>
    /\ sleeps = 0
    /\ polls = 0
    /\ response = NoResponse
    /\ error = NoError
    /\ log = <<>>
    /\ op = "none"
    /\ param = NoParam
    /\ attachmentId = Undefined
    /\ submitResponse = NoResponse
    /\ result = NoResult
    /\ cleanupErrorMessage = Undefined
    /\ binaryData = {}
    /\ dlIndex = 0
    /\ record = NoRecord
    /\ itemIndex = 0
    /\ returnData = <<>>
    /\ continueOnFail \in BOOLEAN
    /\ env = "run"
    /\ hPc = "none"
    /\ hNow = 0
    /\ hStartTime = 0
    /\ hTimeoutMs = 0
    /\ hStatus = Undefined
    /\ hSleeps = 0
    /\ hPolls = 0
    /\ hError = "none"
    /\ script = <<>>
    /\ loader = NoLoader
    /\ listResponse = NoList
    /\ options = <<>>

Next ==
    \/ ExecuteStart
    \/ LoopTest
    \/ ItemReturned
    \/ ItemCaught
    \/ NextExec

Spec == Init /\ [][Next]_vars

(* ------------------- the selection-list loaders ----------------------- *)

\* entries of the answers to GET /jobs and GET /profiles; an entry may be null
ListedJobs ==
    {[null |-> FALSE, job_id |-> "abc", status |-> "running"],
     [null |-> FALSE, job_id |-> "def", status |-> "completed"],
     [null |-> FALSE, job_id |-> "ghi", status |-> "failed"],
     [null |-> FALSE, job_id |-> "abc", status |-> "completed"],
     [null |-> TRUE, job_id |-> "", status |-> ""]}
ListedProfiles ==
    {[null |-> FALSE, profile_name |-> "work", job_count |-> 2],
     [null |-> FALSE, profile_name |-> "test", job_count |-> 0],
     [null |-> FALSE, profile_name |-> "old", job_count |-> 1],
     [null |-> FALSE, profile_name |-> "work", job_count |-> 0],
     [null |-> TRUE, profile_name |-> "", job_count |-> 0]}

SeqsUpTo(S, n) == UNION {[1..k -> S] : k \in 0..n}

\* answers to a list request: the list field may be missing
ListResponses(method) ==
    {NoList} \cup
    {[present |-> TRUE, list |-> l] :
        l \in SeqsUpTo(IF method = "getJobs" THEN ListedJobs ELSE ListedProfiles,
                       MaxListed)}

\* loadOptions.ts 19-22, 32-35: the option made of one entry
JobOption(job) ==
    [name |-> <<job.job_id, " (", job.status, ")">>, value |-> job.job_id]
ProfileOption(profile) ==
    [name |-> <<profile.profile_name, " (", profile.job_count, " jobs)">>,
     value |-> profile.profile_name]

\* response.jobs.map(...) raises on a missing list and on a null entry
MappingFails(r) ==
    ~r.present \/ \E i \in 1..Len(r.list) : r.list[i].null

MapOptions(method, list) ==
    [i \in 1..Len(list) |->
        IF method = "getJobs" THEN JobOption(list[i]) ELSE ProfileOption(list[i])]

\* loadOptions.ts 7-11, 16-17 / part_005 225-231: the credentials are read,
\* then the list request is issued.  The current loaders read them inside the
\* try block, the historical ones before it.
LoadCredentials ==
    /\ pc = "load_call"
    /\ \/ /\ pc' = "list_inflight"
          /\ log' = Append(log, Request(IF loader.method = "getJobs"
                                        THEN "listJobs" ELSE "listProfiles", ""))
          /\ UNCHANGED <<error, options>>
       \/ /\ IF loader.version = "current"
             THEN pc' = "load_returned" /\ options' = <<>> /\ error' = error
             ELSE Throw("credentials", loader.method) /\ options' = options
          /\ log' = log
    /\ UNCHANGED <<now, waitVars, handlerVars, nodeVars, loader, listResponse>>

\* loadOptions.ts 17-25, 30-38 / part_005 229-236, 244-251: the list request
\* answers and is mapped to options; a mapping that raises is caught
ListResponse ==
    /\ pc = "list_inflight"
    /\ \E r \in ListResponses(loader.method) : listResponse' = r
    /\ options' = IF MappingFails(listResponse')
                  THEN <<>>
                  ELSE MapOptions(loader.method, listResponse'.list)
    /\ pc' = "load_returned"
    /\ UNCHANGED <<now, waitVars, error, log, handlerVars, nodeVars, loader>>

\* loadOptions.ts 23-25, 36-38 / part_005 234-236, 249-251: the list request
\* fails in transport; the catch block returns the empty list
ListFailure ==
    /\ pc = "list_inflight"
    /\ options' = <<>>
    /\ pc' = "load_returned"
    /\ UNCHANGED <<now, waitVars, error, log, handlerVars, nodeVars, loader,
                   listResponse>>

(* --------------- specification: a selection-list loader --------------- *)

InitLoad ==
    /\ now = 0
    /\ pc = "load_call"
    /\ pollingInterval = UndefinedNumber
    /\ timeout = UndefinedNumber
    /\ initialStatus = Undefined
    /\ startTime = 0
    /\ timeoutMs = 0
    /\ status = <<>>
    /\ held = <<>>
    /\ sleeps = 0
    /\ polls = 0
    /\ response = NoResponse
    /\ error = NoError
    /\ log = <<>>
    /\ op = "none"
    /\ param = NoParam
    /\ attachmentId = Undefined
    /\ submitResponse = NoResponse
    /\ result = NoResult
    /\ cleanupErrorMessage = Undefined
    /\ binaryData = {}
    /\ dlIndex = 0
    /\ record = NoRecord
    /\ itemIndex = 0
    /\ returnData = <<>>
    /\ continueOnFail = FALSE
    /\ env = "any"
    /\ hPc = "none"
    /\ hNow = 0
    /\ hStartTime = 0
    /\ hTimeoutMs = 0
    /\ hStatus = Undefined
    /\ hSleeps = 0
    /\ hPolls = 0
    /\ hError = "none"
    /\ script = <<>>
    /\ loader \in [version : {"current", "historical"},
                   method : {"getJobs", "getProfiles"}]
    /\ listResponse = NoList
    /\ options = <<>>

NextLoad ==
    \/ LoadCredentials
    \/ ListFailure
    \/ ListResponse

SpecLoad == InitLoad /\ [][NextLoad]_vars

\* the poller's scheduling: a pending timer fires, a request is answered
SpecWaitFair == SpecWait /\ WF_vars(NextWait)

(* ------ specification: the historical and the canonical poller, -------- *)
(* ------ called with the same arguments against the same server  -------- *)

InitPair ==
    /\ now = 0
    /\ pc = "not_called"
    /\ pollingInterval \in {n \in PollingIntervals :
                               n.type = "number" /\ ~PollingIntervalInvalid(n)}
    /\ timeout \in {n \in Timeouts : n.type = "number" /\ ~TimeoutInvalid(n)}
    /\ initialStatus \in RawStatuses
    /\ startTime = 0
    /\ timeoutMs = 0
    /\ status = <<>>
    /\ held = <<>>
    /\ sleeps = 0
    /\ polls = 0
    /\ response = NoResponse
    /\ error = NoError
    /\ log = <<>>
    /\ op = "none"
    /\ param = NoParam
    /\ attachmentId = Undefined
    /\ submitResponse = NoResponse
    /\ result = NoResult
    /\ cleanupErrorMessage = Undefined
    /\ binaryData = {}
    /\ dlIndex = 0
    /\ record = NoRecord
    /\ itemIndex = 0
    /\ returnData = <<>>
    /\ continueOnFail = FALSE
    /\ env = "pair"
    /\ hPc = "h_call"
    /\ hNow = 0
    /\ hStartTime = 0
    /\ hTimeoutMs = 0
    /\ hStatus = Undefined
    /\ hSleeps = 0
    /\ hPolls = 0
    /\ hError = "none"
    /\ script = <<>>
    /\ loader = NoLoader
    /\ listResponse = NoList
    /\ options = <<>>

NextPair ==
    \/ HistInit
    \/ HistLoopHead
    \/ HistSleepDone
    \/ HistStatusResponse
    \/ HistStatusFailure
    \/ CanonicalCall
    \/ WaitValidate
    \/ WaitInit
    \/ LoopHead
    \/ SleepDone
    \/ StatusResponse
    \/ StatusFailure

SpecPair == InitPair /\ [][NextPair]_vars

(* ================= properties of waitForJobCompletion ================= *)

NonTerminalStatuses == {JOB_STATUS_PENDING, JOB_STATUS_RUNNING}
TerminalStatuses == {JOB_STATUS_COMPLETED, JOB_STATUS_FAILED}

\* a number that is finite and at least / more than a bound, as the
\* specification words it
IsFiniteAtLeastOne(v) ==
    LET n == ToNumber(v) IN n.kind = "finite" /\ n.halves >= 2
IsFinitePositive(v) ==
    LET n == ToNumber(v) IN n.kind = "finite" /\ n.halves > 0
ArgumentsValid == IsFiniteAtLeastOne(pollingInterval) /\ IsFinitePositive(timeout)

\* the call is past its validation step
WaitEntered == pc # "wait_call"
\* the loop's clock has been started (line 266 has run)
WaitStarted == held # <<>>

CountNonTerminal(h) == Cardinality({i \in 1..Len(h) : h[i] \in NonTerminalStatuses})
StatusRequestsIn(l) == Cardinality({i \in 1..Len(l) : l[i].kind = "status"})
LastHeld == held[Len(held)]

\* C1: a call whose polling interval is not a finite number >= 1, or whose
\* timeout is not a finite number > 0, fails with a validation error, and no
\* HTTP request and no sleep has been performed when it fails.
C1_InvalidArgumentsFailFast ==
    (WaitEntered /\ ~ArgumentsValid) =>
        /\ pc = "threw"
        /\ error.kind = "validation"
        /\ log = <<>>
        /\ polls = 0
        /\ sleeps = 0
        /\ ~WaitStarted

C1_Witness ==
    /\ pc = "threw"
    /\ error.kind = "validation"
    /\ pollingInterval = Num(1)
    /\ IsFinitePositive(timeout)
    /\ NormalizeStatus(initialStatus) = JOB_STATUS_RUNNING

\* C2: when the call returns normally, the number of status requests it
\* issued equals the number of non-terminal statuses it held (two for
\* pending, running, completed), and a held completed status is never
\* followed by a sleep or a request.
C2_OneRequestPerNonTerminalStatus ==
    /\ pc = "wait_returned" =>
          /\ polls = CountNonTerminal(held)
          /\ StatusRequestsIn(log) = polls
          /\ sleeps = polls
    /\ (WaitStarted /\ LastHeld = JOB_STATUS_COMPLETED) =>
          /\ pc \in {"loop_head", "wait_returned"}
          /\ polls = Len(held) - 1

C2_Witness ==
    /\ pc = "wait_returned"
    /\ held = <<JOB_STATUS_PENDING, JOB_STATUS_RUNNING, JOB_STATUS_COMPLETED>>
    /\ polls = 2

\* C3: once the held status is completed or failed, no step of the poller
\* issues a status request or starts a sleep.
C3_TerminalStatusIsAbsorbing ==
    [][(WaitStarted /\ LastHeld \in TerminalStatuses) =>
          /\ polls' = polls
          /\ sleeps' = sleeps
          /\ StatusRequestsIn(log') = StatusRequestsIn(log)
          /\ pc' \notin {"sleeping", "status_inflight"}]_vars

C3_Witness ==
    /\ pc = "wait_returned"
    /\ status = JOB_STATUS_FAILED
    /\ polls >= 1

\* C4: if every status request answers pending or running, a valid call that
\* starts on a non-terminal status eventually fails with the timeout error,
\* never returns normally and never fails with the empty-status or
\* unknown-status error; the timeout error is raised at the head of an
\* iteration, with no sleep or status request of that iteration started.
OnlyNonTerminalAnswers ==
    /\ response.type # "none" => NormalizeStatus(response) \in NonTerminalStatuses
    /\ error.kind # "api"
StartsNonTerminal ==
    /\ ArgumentsValid
    /\ NormalizeStatus(initialStatus) \in NonTerminalStatuses \cup {<<>>}
C4_NeverLeavingRunningTimesOut ==
    /\ (StartsNonTerminal /\ []OnlyNonTerminalAnswers) =>
          /\ <>(pc = "threw" /\ error.kind = "timeout")
          /\ [](pc # "wait_returned")
          /\ [](error.kind \notin {"empty_status", "unknown_status"})
    /\ [][(error'.kind = "timeout" /\ error.kind # "timeout") =>
             /\ pc = "loop_head"
             /\ sleeps' = sleeps /\ polls' = polls /\ log' = log
             /\ sleeps = polls]_vars

C4_Witness ==
    /\ pc = "threw"
    /\ error.kind = "timeout"
    /\ polls >= 2
    /\ \A i \in 1..Len(held) : held[i] = JOB_STATUS_RUNNING

\* C5: every sleep and every status request of the poller starts and ends no
\* later than timeout seconds after the loop's start time.
C5_WaitBoundedByTimeout ==
    (WaitStarted /\ pc \in {"loop_head", "sleeping", "status_inflight", "wait_returned", "threw"}) =>
        now - startTime <= timeoutMs

\* C6: a polled status that is missing or empty after trimming fails the call
\* with the empty-status error, one that is non-empty and not a known status
\* fails it with the unknown-status error; no status request follows, and
\* the error kinds are not confused with each other or with the timeout.
ResponseIsBlank ==
    /\ response.type # "none"
    /\ response.type = "undefined"
         \/ \A i \in 1..Len(response.chars) : response.chars[i] \in WhiteSpace
ResponseIsUnknown ==
    /\ response.type # "none"
    /\ ~ResponseIsBlank
    /\ NormalizeStatus(response) \notin NonTerminalStatuses \cup TerminalStatuses
C6_EmptyAndUnknownStatusErrors ==
    /\ ResponseIsBlank <=> error.kind = "empty_status"
    /\ ResponseIsUnknown <=> error.kind = "unknown_status"
    /\ error.kind \in {"empty_status", "unknown_status"} =>
          /\ pc = "threw"
          /\ polls = Len(held) - 1
          /\ StatusRequestsIn(log) = polls
    /\ error.kind = "timeout" => LastHeld \in NonTerminalStatuses

C6_Witness ==
    /\ pc = "threw"
    /\ error.kind = "empty_status"
    /\ response = Str(<<" ", "\t">>)
    /\ polls >= 2

\* C7: the call never returns normally while the status it holds is
\* non-empty and outside pending, running, completed, failed.
C7_UnknownStatusNeverReturnsNormally ==
    pc = "wait_returned" =>
        ~(status # <<>> /\ status \notin NonTerminalStatuses \cup TerminalStatuses)

(* ================== properties of the operation handlers =============== *)

RequestsOfKind(kind) == Cardinality({i \in 1..Len(log) : log[i].kind = kind})

\* text occurs in message as a contiguous part
Contains(message, text) ==
    \E i \in 1..(Len(message) - Len(text) + 1) :
        SubSeq(message, i, i + Len(text) - 1) = text

\* ignoring case, the status of the fetched result is the string failed
ResultStatusIsFailed ==
    /\ result.status.type = "string"
    /\ Len(result.status.chars) = Len(JOB_STATUS_FAILED)
    /\ \A i \in 1..Len(JOB_STATUS_FAILED) :
          result.status.chars[i] \in
              {JOB_STATUS_FAILED[i], <<"F", "A", "I", "L", "E", "D">>[i]}

IsBlank(value) ==
    value.type # "string" \/ \A i \in 1..Len(value.chars) : value.chars[i] \in WhiteSpace

ExecuteScriptFetched == op = "executeScript" /\ result # NoResult

\* C8: the poller does not throw on a held failed status; execute-script then
\* fetches the result exactly once, and a fetched result whose status is
\* failed always ends in the job-failed error, whose message carries the
\* result's non-empty error and stderr texts; no record is returned for it.
C8_FailedJobIsRaisedByTheHandler ==
    /\ (WaitStarted /\ LastHeld = JOB_STATUS_FAILED) =>
          pc \in {"loop_head", "wait_returned"}
    /\ op = "executeScript" => RequestsOfKind("result") <= 1
    /\ ExecuteScriptFetched => RequestsOfKind("result") = 1
    /\ (ExecuteScriptFetched /\ ResultStatusIsFailed) =>
          /\ pc \in {"failure_cleanup_inflight", "threw"}
          /\ record = NoRecord
          /\ pc = "threw" =>
                /\ error.kind = "jobFailed"
                /\ ~IsBlank(result.error) =>
                      Contains(error.message, Trim(result.error.chars))
                /\ ~IsBlank(result.stderr) =>
                      Contains(error.message, Trim(result.stderr.chars))

C8_Witness ==
    /\ pc = "threw"
    /\ error.kind = "jobFailed"
    /\ op = "executeScript"
    /\ result.status = Str(<<"F", "A", "I", "L", "E", "D">>)
    /\ result.error = Str(<<" ", "boom", "\n">>)
    /\ result.stderr = Str(<<"Trace...", "\n">>)
    /\ RequestsOfKind("status") >= 1

\* the error and stderr texts of the fetched result, as surfaced
OriginalFailureText ==
    LET e == IF IsBlank(result.error) THEN <<>> ELSE Trim(result.error.chars)
        t == IF IsBlank(result.stderr) THEN <<>> ELSE Trim(result.stderr.chars)
    IN  IF e # <<>> /\ t # <<>> THEN e \o <<"\n\n">> \o t ELSE e \o t

CleanupFailed == cleanupErrorMessage.type = "string"

\* C9: for a fetched failed result, the cleanup DELETE is issued exactly once
\* when cleanup is enabled and never when it is disabled; whatever the
\* cleanup's outcome the job-failed error is raised, its message starts with
\* the original failure, and a cleanup failure is appended after it as
\* 'Cleanup also failed: ...'.
C9_CleanupNeverMasksTheFailure ==
    (ExecuteScriptFetched /\ ResultStatusIsFailed) =>
        /\ RequestsOfKind("deleteJob") = IF param.cleanJobAfterExecution THEN 1 ELSE 0
        /\ pc = "threw" =>
              /\ error.kind = "jobFailed"
              /\ Head(error.message) = "Job abc failed"
              /\ ~param.cleanJobAfterExecution => ~CleanupFailed
              /\ ~CleanupFailed =>
                    error.message =
                        IF OriginalFailureText = <<>>
                        THEN <<"Job abc failed", ".">>
                        ELSE <<"Job abc failed", ":", "\n\n">> \o OriginalFailureText
              /\ CleanupFailed =>
                    error.message =
                        <<"Job abc failed", ":", "\n\n">> \o OriginalFailureText
                          \o (IF OriginalFailureText = <<>> THEN <<>> ELSE <<"\n\n">>)
                          \o <<"Cleanup also failed: ", "Failed to cleanup job abc">>

C9_Witness ==
    /\ pc = "threw"
    /\ error.kind = "jobFailed"
    /\ param.cleanJobAfterExecution
    /\ CleanupFailed
    /\ result.status = Str(JOB_STATUS_FAILED)
    /\ result.error = Undefined
    /\ result.stderr = Str(<<"Trace...", "\n">>)
    /\ Contains(error.message, <<"Trace...", "\n\n", "Cleanup also failed: ">>)

\* downloadAllArtifacts has been called for the fetched result
DownloadAllCalled ==
    /\ result # NoResult
    /\ param.downloadArtifacts
    /\ op = "executeScript" => ~ResultStatusIsFailed
    /\ pc \in {"artifact_inflight", "downloaded", "cleanup_inflight",
               "handler_returned", "threw"}

\* C10: downloadAllArtifacts on a result whose artifact list is missing or
\* empty returns an empty mapping and issues no artifact download request.
C10_NoArtifactsNoDownload ==
    (DownloadAllCalled /\ (~result.artifacts.present \/ result.artifacts.list = <<>>)) =>
        /\ binaryData = {}
        /\ RequestsOfKind("artifact") = 0
        /\ pc # "artifact_inflight"
        /\ pc = "threw" => error.op = "cleanupJob"
        /\ pc = "handler_returned" => (record.binary = {} /\ ~record.hasBinary)

C10_Witness ==
    /\ pc = "downloaded"
    /\ op = "executeScript"
    /\ ~result.artifacts.present
    /\ binaryData = {}
    /\ RequestsOfKind("artifact") = 0

\* the filenames of the artifact GETs issued, in order
RECURSIVE ArtifactRequests(_)
ArtifactRequests(l) ==
    IF l = <<>> THEN <<>>
    ELSE IF Head(l).kind = "artifact"
         THEN <<Head(l).arg>> \o ArtifactRequests(Tail(l))
         ELSE ArtifactRequests(Tail(l))

FileNames(list) == {list[i] : i \in 1..Len(list)}
KeysOf(mapping) == {e[1] : e \in mapping}

\* C11: downloadAllArtifacts requests the artifacts one at a time in list
\* order, request k+1 only after request k has succeeded; the first failing
\* download fails the whole operation: no later artifact is requested and no
\* mapping, partial or not, reaches the caller.
C11_SequentialDownloadsFailWhole ==
    DownloadAllCalled =>
        LET list == result.artifacts.list
            issued == ArtifactRequests(log)
        IN  /\ Len(issued) <= Len(list)
            /\ issued = SubSeq(list, 1, Len(issued))
            /\ pc = "artifact_inflight" =>
                  /\ Len(issued) = dlIndex
                  /\ KeysOf(binaryData) = FileNames(SubSeq(list, 1, dlIndex - 1))
            /\ pc \in {"downloaded", "cleanup_inflight", "handler_returned"} =>
                  /\ issued = list
                  /\ KeysOf(binaryData) = FileNames(list)
            /\ (pc = "threw" /\ error.op = "downloadArtifact") =>
                  /\ Len(issued) = dlIndex
                  /\ record = NoRecord
                  /\ RequestsOfKind("deleteJob") = 0

C11_Witness ==
    /\ pc = "threw"
    /\ error.op = "downloadArtifact"
    /\ result.artifacts.list = <<"shot.png", "page.html">>
    /\ dlIndex = 1
    /\ ArtifactRequests(log) = <<"shot.png">>

\* C12: execute-script with wait and artifact download enabled, on a job
\* whose result is not failed, issues one artifact GET per entry of the
\* artifact list; the returned record's binary mapping has exactly the
\* artifact filenames as keys, each carrying the binary fetched for that
\* filename, and there is no binary mapping when the list is empty.
C12_RecordCarriesTheArtifacts ==
    (/\ pc = "handler_returned"
     /\ op = "executeScript"
     /\ param.waitForCompletion
     /\ param.downloadArtifacts) =>
        LET list == result.artifacts.list
        IN  /\ record.json = "result"
            /\ ArtifactRequests(log) = list
            /\ KeysOf(record.binary) = FileNames(list)
            /\ \A e \in record.binary :
                  /\ e[2] \in 1..Len(list)
                  /\ list[e[2]] = e[1]
                  /\ \A j \in 1..Len(list) : list[j] = e[1] => j <= e[2]
            /\ \A e, f \in record.binary : e[1] = f[1] => e = f
            /\ record.hasBinary <=> list # <<>>

C12_Witness ==
    /\ pc = "handler_returned"
    /\ op = "executeScript"
    /\ param.waitForCompletion
    /\ param.downloadArtifacts
    /\ result.artifacts.list = <<"shot.png", "page.html">>
    /\ record.binary = {<<"shot.png", 1>>, <<"page.html", 2>>}
    /\ RequestsOfKind("status") = 1

(* ===================== properties of the node's run ==================== *)

\* the record the catch block pushes for the error in hand
ErrorRecord ==
    [json |-> "error", binary |-> {}, error |-> error, pairedItem |-> itemIndex]

ItemFailed == pc = "threw"
RunAborted == pc = "run_failed" /\ error.kind # "credentials"

\* C13: with continue-on-failure off the first failing item aborts the run
\* with that item's error and no request is issued for a later item; with it
\* on the failing item contributes exactly one record, holding the error
\* message paired with the item's index, and the loop goes on; a run that
\* returns has exactly one record per input item, in input order.
C13_ItemFailureHandling ==
    /\ [](RunAborted =>
            /\ ~continueOnFail
            /\ Len(returnData) = itemIndex
            /\ \A k \in 1..Len(log) : log[k].item <= itemIndex)
    /\ [](pc = "run_returned" =>
            /\ Len(returnData) = NumItems
            /\ \A i \in 1..NumItems : returnData[i].pairedItem = i - 1)
    /\ [][ItemFailed =>
            IF continueOnFail
            THEN /\ returnData' = Append(returnData, ErrorRecord)
                 /\ itemIndex' = itemIndex + 1
                 /\ pc' = "loop_test"
            ELSE /\ pc' = "run_failed"
                 /\ error' = error
                 /\ returnData' = returnData]_vars
    /\ [][pc = "run_failed" => FALSE]_vars

C13_Witness ==
    /\ continueOnFail
    /\ pc = "run_returned"
    /\ returnData[1].json = "error"
    /\ returnData[1].error.op = "getJobStatus"
    /\ returnData[2].json = "result"
    /\ \E k \in 1..Len(log) : log[k].item = 1

\* C14: the items are processed strictly one after another: every request
\* belongs to the item in hand, every earlier item has its record by then,
\* and the loop moves to the next item only when the handler of the item in
\* hand has returned or raised.
C14_ItemsOneAfterAnother ==
    /\ [](\A k, l \in 1..Len(log) : k < l => log[k].item <= log[l].item)
    /\ [][log' # log =>
            /\ \E r \in {log'[Len(log')]} :
                  /\ log' = Append(log, r)
                  /\ r.item = itemIndex
            /\ itemIndex' = itemIndex
            /\ itemIndex < NumItems
            /\ \A i \in 1..itemIndex :
                  i <= Len(returnData) /\ returnData[i].pairedItem = i - 1]_vars
    /\ [][itemIndex' # itemIndex =>
            pc \in {"handler_returned", "threw"}]_vars

C14_Witness ==
    /\ pc = "artifact_inflight"
    /\ itemIndex = 1
    /\ \E k \in 1..Len(log) : log[k].item = 0 /\ log[k].kind = "submit"
    /\ log[Len(log)].item = 1

(* ============ further properties of waitForJobCompletion ============== *)

\* C15: within one call there is at most one sleep outstanding and at most
\* one status request in flight, never both; each iteration is one sleep of
\* the polling interval followed by one status request, and the next
\* iteration starts only after that request has been answered.
C15_OneSleepThenOneRequest ==
    WaitStarted =>
        LET failures == IF pc = "threw" /\ error.op = "getJobStatus" THEN 1 ELSE 0
            answers == Len(held) - 1 + failures
            intervalMs == ToMilliseconds(ToNumber(pollingInterval))
        IN  /\ StatusRequestsIn(log) = polls
            /\ pc = "sleeping" <=> sleeps = polls + 1
            /\ pc = "sleeping" => polls = answers
            /\ pc = "status_inflight" <=> polls = answers + 1
            /\ pc = "status_inflight" =>
                  /\ sleeps = polls
                  /\ now - startTime >= polls * intervalMs
            /\ pc \in {"loop_head", "wait_returned", "threw"} =>
                  /\ sleeps = polls
                  /\ now - startTime >= sleeps * intervalMs

C15_Witness ==
    /\ pc = "status_inflight"
    /\ sleeps = 2
    /\ polls = 2
    /\ Len(held) = 2

(* ================ properties of the selection-list loaders ============= *)

\* the name or id the i-th listed entry is selected by
ListedValue(entry) ==
    IF loader.method = "getJobs" THEN entry.job_id ELSE entry.profile_name

\* C16: getJobs and getProfiles never propagate a failure: when the
\* credentials, the list request or the mapping of the answer fails the
\* loader returns the empty list, and otherwise one option per listed job or
\* profile, in the server's order.
C16_LoadersNeverPropagate ==
    /\ pc # "threw"
    /\ pc = "load_returned" =>
          IF RequestsOfKind("listJobs") + RequestsOfKind("listProfiles") = 0
             \/ MappingFails(listResponse)
          THEN options = <<>>
          ELSE /\ Len(options) = Len(listResponse.list)
               /\ \A i \in 1..Len(options) :
                     options[i].value = ListedValue(listResponse.list[i])

(* ================== further properties of the handlers ================= *)

\* the string an operation requires
RequiredString ==
    CASE op = "executeScript" -> param.pythonCode
      [] op = "cleanupProfile" -> param.profileName
      [] OTHER -> param.jobId

HandlerStarted == op \in OperationHandlers /\ pc # "op_start"

\* C17: an empty or whitespace-only required string (the Python code of
\* execute-script, the job id of get-status, get-result and cleanup-job, the
\* profile name of cleanup-profile) fails the handler with a validation error
\* before any request is issued.
C17_BlankRequiredStringFailsFirst ==
    (/\ HandlerStarted
     /\ RequiredString.type = "string"
     /\ IsBlank(RequiredString)) =>
        /\ pc = "threw"
        /\ error.kind = "validation"
        /\ log = <<>>

C17_Witness ==
    /\ op = "cleanupProfile"
    /\ param.profileName = Str(<<"\n">>)
    /\ pc = "threw"
    /\ error.kind = "validation"
    /\ log = <<>>

AttachmentConfigured ==
    /\ op = "executeScript"
    /\ pc # "op_start"
    /\ Trim(param.inputBinaryProperty) # <<>>

\* the ids an upload can answer with, as they are after trimming
UsableAttachmentIds ==
    {Trim(id.chars) : id \in {a \in AttachmentIds : a.type = "string"}} \ {<<>>}

\* C18: with an attachment property configured the upload precedes the
\* submit; the submit is issued only after the upload has answered an id that
\* is non-empty after trimming, and carries that id; a named binary property
\* that the input item lacks fails the handler with no request at all; a
\* failed upload or an empty id leaves no submit issued.
C18_UploadBeforeSubmit ==
    AttachmentConfigured =>
        /\ ~param.inputHasBinary => (pc = "threw" /\ log = <<>>)
        /\ \A k \in 1..Len(log) :
              /\ log[k].kind = "upload" => k = 1
              /\ log[k].kind = "submit" =>
                    /\ k = 2
                    /\ log[1].kind = "upload"
                    /\ log[k].arg = attachmentId.chars
                    /\ log[k].arg \in UsableAttachmentIds
        /\ (pc = "threw" /\ error.op \in {"uploadAttachment", "attachmentIdMissing"}) =>
              /\ RequestsOfKind("upload") = 1
              /\ RequestsOfKind("submit") = 0
              /\ attachmentId = Undefined

C18_Witness ==
    /\ AttachmentConfigured
    /\ pc = "submit_inflight"
    /\ Len(log) = 2
    /\ log[1].kind = "upload"
    /\ log[2].kind = "submit"
    /\ log[2].arg = <<"att2">>

WaitPositions == {"wait_call", "wait_init", "loop_head", "sleeping", "status_inflight"}

\* C19: get-status issues exactly one status GET and nothing else; while
\* waitForJobCompletion runs only status GETs are issued; a DELETE of a job
\* is issued only by cleanup-job, or by execute-script or get-result with
\* clean-job-after-execution enabled, and a DELETE of a profile only by
\* cleanup-profile.
C19_OnlyDeleteChangesTheServer ==
    /\ [](op = "getStatus" =>
            /\ \A k \in 1..Len(log) : log[k].kind = "status"
            /\ Len(log) <= 1
            /\ pc \in {"get_status_inflight", "handler_returned"} => Len(log) = 1)
    /\ [](\A k \in 1..Len(log) :
            /\ log[k].kind = "deleteJob" =>
                  \/ op = "cleanupJob"
                  \/ op \in {"executeScript", "getResult"} /\ param.cleanJobAfterExecution
            /\ log[k].kind = "deleteProfile" => op = "cleanupProfile")
    /\ [][(pc \in WaitPositions /\ log' # log) =>
            /\ Len(log') = Len(log) + 1
            /\ SubSeq(log', 1, Len(log)) = log
            /\ log'[Len(log')].kind = "status"]_vars

C19_Witness ==
    /\ op = "executeScript"
    /\ param.cleanJobAfterExecution
    /\ pc = "handler_returned"
    /\ RequestsOfKind("status") = 2
    /\ RequestsOfKind("deleteJob") = 1
    /\ log[Len(log)].kind = "deleteJob"

(* ================== normalization of the statuses ===================== *)

\* the canonical form of the statuses the server is seen to answer with
CanonicalForm(raw) ==
    CASE IsBlank(raw) -> <<>>
      [] raw = Str(<<" ", "R", "U", "N", "N", "I", "N", "G", " ">>) -> JOB_STATUS_RUNNING
      [] raw = Str(<<"C", "o", "m", "p", "l", "e", "t", "e", "d">>) -> JOB_STATUS_COMPLETED
      [] raw = Str(<<"F", "A", "I", "L", "E", "D", "\n">>) -> JOB_STATUS_FAILED
      [] OTHER -> raw.chars

\* C20: the initial status and every polled status is compared in its
\* trimmed, lowercased form: a missing or blank initial status behaves as
\* pending (the call does not end before a poll is attempted), and a status
\* that differs from a canonical one only by case or surrounding whitespace
\* is held as the canonical one.
C20_StatusesAreNormalized ==
    WaitStarted =>
        /\ held[1] = IF IsBlank(initialStatus)
                     THEN JOB_STATUS_PENDING
                     ELSE CanonicalForm(initialStatus)
        /\ (IsBlank(initialStatus) /\ pc \in {"wait_returned", "threw"}) =>
              (sleeps >= 1 /\ polls >= 1)
        /\ response.type # "none" => LastHeld = CanonicalForm(response)

C20_Witness ==
    /\ initialStatus = Str(<<" ", "R", "U", "N", "N", "I", "N", "G", " ">>)
    /\ response = Str(<<"C", "o", "m", "p", "l", "e", "t", "e", "d">>)
    /\ pc = "wait_returned"
    /\ held = <<JOB_STATUS_RUNNING, JOB_STATUS_COMPLETED>>
    /\ polls = 1

(* ============ order and extent of the handlers' requests ============== *)

KindsInLog == {log[k].kind : k \in 1..Len(log)}

NoWaitExecuteScript ==
    /\ op = "executeScript"
    /\ pc # "op_start"
    /\ ~param.waitForCompletion

\* C21: execute-script with wait-for-completion disabled issues exactly one
\* submit request, preceded by at most one upload, and returns the submit
\* response as the record; it issues no status, result, artifact or delete
\* request, whatever download-artifacts and clean-job-after-execution say.
C21_NoWaitOnlySubmits ==
    NoWaitExecuteScript =>
        /\ KindsInLog \subseteq {"upload", "submit"}
        /\ RequestsOfKind("submit") <= 1
        /\ RequestsOfKind("upload") <= 1
        /\ Len(log) >= 1 => log[Len(log)].kind = "submit" \/ Len(log) = 1
        /\ pc = "handler_returned" =>
              /\ RequestsOfKind("submit") = 1
              /\ log[Len(log)].kind = "submit"
              /\ record.json = "submitResponse"
              /\ ~record.hasBinary
        /\ pc \notin {"op_start", "upload_inflight", "submit_inflight",
                      "handler_returned", "threw"} => FALSE

C21_Witness ==
    /\ NoWaitExecuteScript
    /\ param.downloadArtifacts
    /\ param.cleanJobAfterExecution
    /\ pc = "handler_returned"
    /\ Len(log) = 2
    /\ log[1].kind = "upload"
    /\ log[2].kind = "submit"
    /\ record.json = "submitResponse"

(* ============== the deadline and the end of the polling =============== *)

DeadlinePassed == now - startTime > timeoutMs

\* C22: the timeout is checked between iterations only.  A status request in
\* flight is never ended by the deadline: it ends with its answer or its
\* transport failure; an answer of completed or failed that arrives after the
\* deadline makes the call return normally; and the timeout error is raised
\* only at the head of an iteration with a held status of pending or running.
C22_TimeoutCheckedBetweenIterations ==
    /\ [][pc = "status_inflight" =>
            /\ error'.kind # "timeout"
            /\ pc' = "loop_head" \/
               (pc' = "threw" /\
                error'.kind \in {"api", "empty_status", "unknown_status"})
            /\ (~DeadlinePassed /\ DeadlinePassed' /\ status' \in TerminalStatuses) =>
                  (pc' = "loop_head" /\ error' = error)]_vars
    /\ [][(pc = "loop_head" /\ status \in TerminalStatuses) =>
            (pc' = "wait_returned" /\ error' = error)]_vars
    /\ [][(error'.kind = "timeout" /\ error.kind # "timeout") =>
            (pc = "loop_head" /\ status \in NonTerminalStatuses)]_vars

\* an interval of 1 s and a timeout of 2.5 s: the only request was issued at
\* 2 s at the latest, its answer arrived at 3 s
C22_Witness ==
    /\ pc = "wait_returned"
    /\ pollingInterval = Num(2)
    /\ timeout = Num(5)
    /\ polls = 1
    /\ now - startTime = 3 * MILLISECONDS_PER_SECOND
    /\ held = <<JOB_STATUS_PENDING, JOB_STATUS_FAILED>>
    /\ error = NoError

\* floor(T / I) + 1 for the call's timeout T and polling interval I
MaxStatusRequests ==
    (ToNumber(timeout).halves \div ToNumber(pollingInterval).halves) + 1

WaitEnded == pc \in {"wait_returned", "threw"}

\* C23: with every sleep lasting at least the interval and every status
\* request answered, a call of waitForJobCompletion ends, by returning or by
\* failing; with a valid interval I and timeout T it issues at most
\* floor(T / I) + 1 status requests, whatever statuses are answered.
C23_TerminatesWithinBoundedRequests ==
    /\ <>WaitEnded
    /\ []((WaitStarted /\ ArgumentsValid) =>
            /\ polls <= MaxStatusRequests
            /\ StatusRequestsIn(log) <= MaxStatusRequests)

C23_Witness ==
    /\ pc = "threw"
    /\ error.kind = "timeout"
    /\ ArgumentsValid
    /\ polls = MaxStatusRequests
    /\ polls >= 2

\* C24: a failed status request is never retried: the call fails with the
\* API error that wraps the failure under 'Failed to get job status', not
\* with a timeout or protocol error, and no sleep or status request follows,
\* whether or not the deadline has been reached.
C24_FailedStatusRequestIsFinal ==
    /\ [](WaitStarted =>
            LET unanswered == polls - (Len(held) - 1)
            IN  /\ unanswered \in {0, 1}
                /\ (unanswered = 1 /\ pc # "status_inflight") =>
                      /\ pc = "threw"
                      /\ error.kind = "api"
                      /\ error.op = "getJobStatus"
                      /\ Contains(error.message, <<"Failed to get job status for job ">>)
                      /\ sleeps = polls
                      /\ StatusRequestsIn(log) = polls)
    /\ [][pc = "threw" => FALSE]_vars

C24_Witness ==
    /\ pc = "threw"
    /\ error.kind = "api"
    /\ polls = 2
    /\ Len(held) = 2
    /\ ~DeadlinePassed
    /\ held[2] = JOB_STATUS_RUNNING

\* the place of a request in the order upload, submit, status polls, result
\* fetch, artifact downloads, job DELETE
Rank(kind) ==
    CASE kind = "upload" -> 0
      [] kind = "submit" -> 1
      [] kind = "status" -> 2
      [] kind = "result" -> 3
      [] kind = "artifact" -> 4
      [] kind = "deleteJob" -> 5
      [] OTHER -> 6

WaitingExecuteScript ==
    /\ op = "executeScript"
    /\ pc # "op_start"
    /\ param.waitForCompletion

\* C25: in execute-script with waiting enabled the requests of an item come
\* in the order submit, status polls, one result fetch, artifact downloads,
\* job DELETE: the result is fetched only after the poller has returned, no
\* artifact is downloaded before the result fetch, on the non-failed path the
\* DELETE follows only after every download has succeeded, and a failed
\* result fetch or download leaves no DELETE issued, cleanup enabled or not.
C25_RequestsInFixedOrder ==
    WaitingExecuteScript =>
        /\ \A k, l \in 1..Len(log) :
              k < l => /\ Rank(log[k].kind) <= Rank(log[l].kind)
                       /\ Rank(log[l].kind) <= 5
        /\ RequestsOfKind("submit") <= 1
        /\ RequestsOfKind("result") <= 1
        /\ RequestsOfKind("deleteJob") <= 1
        /\ RequestsOfKind("result") = 1 => pc \notin WaitPositions \cup {"wait_returned"}
        /\ RequestsOfKind("artifact") > 0 =>
              (RequestsOfKind("result") = 1 /\ result # NoResult)
        /\ (RequestsOfKind("deleteJob") = 1 /\ ~ResultStatusIsFailed) =>
              /\ param.cleanJobAfterExecution
              /\ result # NoResult
              /\ param.downloadArtifacts =>
                    /\ ArtifactRequests(log) = result.artifacts.list
                    /\ KeysOf(binaryData) = FileNames(result.artifacts.list)
        /\ (pc = "threw" /\ error.op \in {"getJobResult", "downloadArtifact"}) =>
              RequestsOfKind("deleteJob") = 0

C25_Witness ==
    /\ WaitingExecuteScript
    /\ pc = "handler_returned"
    /\ Len(log) = 6
    /\ [k \in 1..6 |-> log[k].kind] =
          <<"submit", "status", "result", "artifact", "artifact", "deleteJob">>

\* the requests issued after the result fetch
RECURSIVE AfterResultFetch(_)
AfterResultFetch(l) ==
    IF l = <<>> THEN <<>>
    ELSE IF Head(l).kind = "result" THEN Tail(l)
    ELSE AfterResultFetch(Tail(l))

\* C26: in execute-script, when the status of the fetched result is failed,
\* no artifact download is issued for the job, whatever download-artifacts
\* says; after the result fetch there is at most one job DELETE and nothing
\* else.
C26_FailedResultIsNotDownloaded ==
    (ExecuteScriptFetched /\ ResultStatusIsFailed) =>
        /\ RequestsOfKind("artifact") = 0
        /\ Len(AfterResultFetch(log)) <= 1
        /\ \A k \in 1..Len(AfterResultFetch(log)) :
              AfterResultFetch(log)[k].kind = "deleteJob"
        /\ binaryData = {}
        /\ pc # "handler_returned"

C26_Witness ==
    /\ ExecuteScriptFetched
    /\ ResultStatusIsFailed
    /\ param.downloadArtifacts
    /\ result.artifacts.list = <<"shot.png", "page.html">>
    /\ pc = "threw"
    /\ error.kind = "jobFailed"
    /\ Len(AfterResultFetch(log)) = 1

GetResultFetched == op = "getResult" /\ result # NoResult

\* C27: get-result fetches, downloads and cleans up without looking at the
\* job's status: with clean-job-after-execution enabled it issues the job
\* DELETE after a successful fetch and successful downloads for every fetched
\* status, pending and running included; it never raises the job-failed
\* error; and when the final DELETE fails the handler fails, returning
\* neither the fetched result nor the binaries.
C27_GetResultIgnoresTheStatus ==
    /\ [](op = "getResult" => error.kind # "jobFailed")
    /\ []((GetResultFetched /\ param.cleanJobAfterExecution
           /\ pc \in {"cleanup_inflight", "handler_returned"}) =>
            /\ RequestsOfKind("deleteJob") = 1
            /\ log[Len(log)].kind = "deleteJob")
    /\ []((op = "getResult" /\ pc = "handler_returned") =>
            /\ record.json = "result"
            /\ record.binary = binaryData
            /\ RequestsOfKind("deleteJob") = IF param.cleanJobAfterExecution THEN 1 ELSE 0)
    /\ []((op = "getResult" /\ pc = "threw" /\ error.op = "cleanupJob") =>
            /\ record = NoRecord
            /\ error.kind = "api")
    /\ [][(GetResultFetched /\ param.cleanJobAfterExecution
           /\ (pc = "downloaded" \/ (pc = "after_result" /\ ~param.downloadArtifacts))) =>
            (pc' = "cleanup_inflight" /\ log' = Append(log, Request("deleteJob", "")))]_vars
    /\ [][(op = "getResult" /\ pc = "cleanup_inflight") =>
            (pc' = "handler_returned" \/ (pc' = "threw" /\ record' = NoRecord))]_vars

C27_Witness ==
    /\ op = "getResult"
    /\ result.status = Str(JOB_STATUS_RUNNING)
    /\ binaryData = {<<"shot.png", 1>>}
    /\ pc = "threw"
    /\ error.op = "cleanupJob"
    /\ record = NoRecord
    /\ log[Len(log)].kind = "deleteJob"


(* ============ the historical poller against the canonical one ========== *)

\* both calls have ended and every status request of both was answered
PairEnded ==
    /\ hPc \in {"h_returned", "h_threw"}
    /\ pc \in {"wait_returned", "threw"}
    /\ hError # "api"
    /\ error.kind # "api"

SameRequests == sleeps = hSleeps /\ polls = hPolls /\ now = hNow
BothReturn == pc = "wait_returned" /\ hPc = "h_returned"
BothThrow == pc = "threw" /\ hPc = "h_threw" /\ error.kind = hError
PollersDiffer == ~(SameRequests /\ (BothReturn \/ BothThrow))

\* the statuses the historical poller saw: the initial one and the answers
StatusesSeen == {initialStatus} \cup {script[k].status : k \in 1..hPolls}

CanonicalLowercase(value) == value.type = "string" /\ IsKnownStatus(value.chars)

\* what the canonical poller holds for the status the historical one stopped on
CanonicalHeld ==
    IF hPolls = 0 /\ NormalizeStatus(hStatus) = <<>>
    THEN JOB_STATUS_PENDING
    ELSE NormalizeStatus(hStatus)

\* the status the historical poller stopped on separates the two pollers
StoppedOnSeparatingStatus ==
    \/ hStatus = Str(JOB_STATUS_FAILED)
    \/ ShouldPoll(CanonicalHeld) /\ ~HistShouldPoll(hStatus)
    \/ hPolls > 0 /\ ClassifyStatus(CanonicalHeld) # "ok"

CommonDomainRun ==
    /\ \A s \in StatusesSeen : CanonicalLowercase(s)
    /\ hStatus = Str(JOB_STATUS_COMPLETED)

\* C28 as stated: on the common domain (valid numbers, lowercase known
\* statuses, a run ending in completed) both pollers issue the same sleeps
\* and status requests and return normally; and they differ exactly when the
\* final status is failed or some status is unknown, empty or not in
\* canonical lowercase form.
C28_PollersDifferExactlyOffTheCommonDomain ==
    PairEnded =>
        /\ CommonDomainRun => (SameRequests /\ BothReturn)
        /\ PollersDiffer <=>
              (hStatus = Str(JOB_STATUS_FAILED)
                 \/ \E s \in StatusesSeen : ~CanonicalLowercase(s))

\* C28, amended: on the common domain both pollers issue the same sleeps and
\* status requests and return normally; they differ only when the final
\* status is failed or some status is not a lowercase known one, and exactly
\* when the status the historical poller stops on is the string failed
\* (historical throws, canonical returns), or a polled status the canonical
\* poller rejects as empty or unknown, or a status that only normalization
\* turns into pending or running (canonical goes on polling).  A status such
\* as 'Completed', 'FAILED\n' or an unknown initial status ends both pollers
\* normally after the same requests.
C28_PollersDifferOnSeparatingStatus ==
    PairEnded =>
        /\ CommonDomainRun => (SameRequests /\ BothReturn)
        /\ PollersDiffer =>
              (hStatus = Str(JOB_STATUS_FAILED)
                 \/ \E s \in StatusesSeen : ~CanonicalLowercase(s))
        /\ PollersDiffer <=> StoppedOnSeparatingStatus

C28_Witness ==
    /\ PairEnded
    /\ initialStatus = Str(JOB_STATUS_PENDING)
    /\ hPolls = 2
    /\ script[1].status = Str(JOB_STATUS_RUNNING)
    /\ hStatus = Str(<<"C", "o", "m", "p", "l", "e", "t", "e", "d">>)
    /\ SameRequests
    /\ BothReturn

====
